---- MODULE Spec2Model ----
(***************************************************************************)
(* Model of the startup-registry crawlers of this repository:              *)
(*   v2.py              requests + BeautifulSoup loop  (variant "v2")      *)
(*   v3.py              Selenium driven loop           (variant "v3")      *)
(*   startUpCrawler.py  Scrapy spider                  (variant "spiderA") *)
(*   startup_crawler.py Scrapy spider, reworked        (variant "spiderB") *)
(* One run of one program is one behaviour; Init picks the program and its *)
(* arguments; the output file does not exist when the run starts.          *)
(* The web site is the environment: what a fetch returns is chosen when    *)
(* the fetch happens.                                                      *)
(*                                                                         *)
(* Abstractions: a company record is counted, not stored (the collected    *)
(* list and the rows of the output file are numbers of records); a         *)
(* document is the links and the next-page control the selectors find in   *)
(* it.                                                                     *)
(***************************************************************************)
EXTENDS Naturals, Integers, Sequences, FiniteSets, TLC

\* ------------------------------------------------------------------ bounds
\* longest list of detail links on one listing page
MaxLinks == 2
\* largest max_pages argument of crawl()
MaxPagesArg == 2
\* largest companies_per_page argument of crawl() (0 stands for None)
MaxPerPageArg == 1
\* largest number of forms on the homepage
MaxForms == 1

\* -------------------------------------------------------------------- URLs
U(p, q) == [path |-> p, query |-> q]
\* Python's None where a URL is expected
NoUrl == U("", "")
\* base_url of the two crawl() programs, the first listing page
BaseUrl == U("/", "")
\* listing pages a next-page control can point to
NextTargets == {U("/isin/search", "page=2"), U("/isin/list/3", "")}
DetailURLs == {U("/company/1", ""), U("/company", "id=2")}
\* start_urls of both spiders
HomeUrl == U("/isin/home", "")
\* action_url of a form without an action attribute
DefaultSearchUrl == U("/isin/search", "")
\* startUpCrawler.py parse(): search_urls, in order
SearchUrls ==
    <<U("/isin/search", "searchType=advanced"), U("/isin/search", ""),
      U("/isin/ricerca", ""), U("/isin/search", "stato=A"), U("/isin/search", "regione=")>>
\* startup_crawler.py parse(): fallback_urls, in order
FallbackUrls ==
    <<U("/isin/search", "searchType=advanced"), U("/isin/search", ""),
      U("/isin/ricerca", "")>>
\* action attributes of the homepage's forms (NoUrl: the attribute is missing)
FormActions == {NoUrl, U("/isin/search", ""), U("/isin/login", "")}
\* hrefs of the homepage's "Cerca"/"Search" anchors
SearchAnchors == {U("/isin/ricerca", "")}
\* what robots.txt can disallow: nothing, a company page, a listing page
CompanyDisallowed == {U("/company/1", "")}
RobotsRules == {{}, CompanyDisallowed, {U("/isin/list/3", "")}}
Variants == {"v2", "v3", "spiderA", "spiderB"}
Spiders == {"spiderA", "spiderB"}

\* ------------------------------------------------------------ documents
RECURSIVE SeqsUpTo(_, _)
SeqsUpTo(S, n) ==
    IF n = 0 THEN {<<>>}
    ELSE LET shorter == SeqsUpTo(S, n - 1)
         IN  shorter \cup {Append(s, x) : s \in {t \in shorter : Len(t) = n - 1}, x \in S}

\* the hrefs the link selectors find on a listing page, in document order, each
\* written as the absolute URL that urljoin(base, href) resolves it to
LinkSeqs == SeqsUpTo(DetailURLs, MaxLinks)
\* a listing document: its detail links and the href of its next control
ListingDocs(start) ==
    [links : LinkSeqs, next : {NoUrl, start} \cup NextTargets]
\* a document without links and without a next control
BlankDoc == [links |-> <<>>, next |-> NoUrl]
\* the homepage: the action of each form, the hrefs of its search anchors
HomeDocs == [forms : SeqsUpTo(FormActions, MaxForms), anchors : SeqsUpTo(SearchAnchors, 1)]
\* a detail document as the listing selectors see it: no company links, and
\* possibly an anchor that the next-page selectors match
DetailDocs == [links : {<<>>}, next : {NoUrl} \cup NextTargets]

Range(s) == {s[i] : i \in 1..Len(s)}
Min(a, b) == IF a < b THEN a ELSE b
HasDuplicates(s) == \E i, j \in 1..Len(s) : i # j /\ s[i] = s[j]

VARIABLES
    variant,            \* which program runs
    max_pages,          \* crawl(max_pages, ...)
    companies_per_page, \* crawl(..., companies_per_page); 0 is None
    pc,                 \* position of the single control thread
    current_url,        \* crawl: URL of the listing page to load next
    current_page,       \* crawl: page counter, starts at 1
    html,               \* v2: the listing document of this iteration
    driver_dom,         \* v3: the document the browser currently shows
    company_links,      \* crawl: detail links of the current listing page
    link_idx,           \* crawl: index of the next link of the for loop
    all_companies_data, \* crawl: number of records collected
    csv,                \* the output file
    browser_open,       \* v3: the driver has not been quit
    scheduler,          \* spiders: requests waiting in the Scrapy scheduler
    inflight,           \* spiders: requests handed to the downloader
    seen,               \* spiders: what the dupefilter has seen
    processed_urls,     \* spiderA: self.processed_urls
    company_count,      \* spiders: self.company_count
    items,              \* spiders: items returned, not yet through the pipelines
    robots,             \* the URLs that the site's robots.txt disallows
    debug,              \* startup_crawler.py: self.debug
    snapshots,          \* spiders: page roles a snapshot file was written for
    response,           \* field extraction: the detail document being read
    item,               \* field extraction: the record built from it
    hist                \* history of the run, read by the properties only

vars == <<variant, max_pages, companies_per_page, pc, current_url, current_page,
          html, driver_dom, company_links, link_idx, all_companies_data, csv,
          browser_open, scheduler, inflight, seen, processed_urls, company_count,
          items, robots, debug, snapshots, response, item, hist>>

crawlVars == <<max_pages, companies_per_page, current_url, current_page, html,
               driver_dom, company_links, link_idx, all_companies_data, browser_open>>
spiderVars == <<scheduler, inflight, seen, processed_urls, company_count, items>>
sideVars == <<robots, debug, snapshots>>
extractVars == <<response, item>>


\* ------------------------------------------------------------------- text
\* A string is a sequence of tokens: " " is white space, ":" and "@" and "."
\* are themselves, "mailto:" is the URL scheme with its colon, any other
\* token is a word without white space or punctuation.
Empty == <<>>

\* most text nodes per selector, most labelled elements, most mailto links
\* and most pattern matches of a detail document
MaxHits == 2
MaxElements == 3
MaxMailto == 2
MaxMatches == 2

\* str.strip()
RECURSIVE LStrip(_)
LStrip(s) == IF s # Empty /\ Head(s) = " " THEN LStrip(Tail(s)) ELSE s
RECURSIVE RStrip(_)
RStrip(s) ==
    IF s # Empty /\ s[Len(s)] = " " THEN RStrip(SubSeq(s, 1, Len(s) - 1)) ELSE s
Strip(s) == RStrip(LStrip(s))

\* str.replace(tok, ''): every occurrence goes
RECURSIVE Replace(_, _)
Replace(s, tok) ==
    IF s = Empty THEN Empty
    ELSE IF Head(s) = tok THEN Replace(Tail(s), tok)
    ELSE <<Head(s)>> \o Replace(Tail(s), tok)

\* tok in s, for a one-token needle
HasToken(s, tok) == \E i \in 1..Len(s) : s[i] = tok

\* sub in s
Contains(s, sub) ==
    \E i \in 1..(Len(s) + 1 - Len(sub)) : SubSeq(s, i, i + Len(sub) - 1) = sub

\* s.split(tok, 1)[1] for a string that holds tok
AfterFirst(s, tok) ==
    LET i == CHOOSE k \in 1..Len(s) : s[k] = tok /\ \A j \in 1..(k - 1) : s[j] # tok
    IN  SubSeq(s, i + 1, Len(s))

\* s.split(tok)[-1]
AfterLast(s, tok) ==
    IF ~HasToken(s, tok) THEN s
    ELSE LET i == CHOOSE k \in 1..Len(s) : s[k] = tok /\ \A j \in (k + 1)..Len(s) : s[j] # tok
         IN  SubSeq(s, i + 1, Len(s))

\* str.lower(): the documents write one word in capitals
LowerToken(tok) == IF tok = "GMAIL" THEN "gmail" ELSE tok
Lower(s) == [i \in 1..Len(s) |-> LowerToken(s[i])]

\* ' '.join(values)
RECURSIVE JoinSpace(_)
JoinSpace(values) ==
    IF values = <<>> THEN Empty
    ELSE IF Len(values) = 1 THEN values[1]
    ELSE values[1] \o <<" ">> \o JoinSpace(Tail(values))

\* the concatenation of a sequence of sequences
RECURSIVE Flatten(_)
Flatten(ss) == IF ss = <<>> THEN <<>> ELSE Head(ss) \o Flatten(Tail(ss))

\* the first member of a sequence that satisfies a test, or a default
FirstWhere(s, Test(_), default) ==
    LET found == SelectSeq(s, Test) IN IF found = <<>> THEN default ELSE found[1]

\* None
Null == <<"None">>

\* ------------------------------------------------------- detail documents
\* the text nodes that a selector of a field can match
Texts == {<<" ">>, <<"Acme">>, <<" ", "Beta", " ">>}
\* what one selector matches, in document order
SelectorHits == SeqsUpTo(Texts, MaxHits)
\* the first two selectors of a field's list ('h1', 'h2' for the company name;
\* '.description', '#description' for the description), each with its matches
FieldHits == [1..2 -> SelectorHits]
NoHits == [k \in 1..2 |-> <<>>]
PlainHits == [k \in 1..2 |-> IF k = 1 THEN <<<<"Acme">>>> ELSE <<>>]

\* the labels of the region and of the date of a company page; 'Region', the
\* second region label, is left out: it is part of the word 'Regione', so it
\* matches the elements that 'Regione' matches and no document below has it
\* alone
RegionLabels == <<"Regione", "Territory">>
DateLabels == <<"Costituzione">>
\* the first text node of an element of the page
ElementTexts ==
    {<<"Regione", ":", " ", "Lombardia">>, <<"Territory", ":", " ", "Veneto">>,
     <<"Regione">>, <<"Altro">>, <<" ">>,
     <<"Costituzione", ":", " ", "01/02/2020">>, <<"costituita", " ", "01/02/2020">>}
\* the elements of the page that carry text, children of one parent, in
\* document order
Elements == SeqsUpTo(ElementTexts, MaxElements)

\* the href of an a[href^="mailto:"] element
Hrefs ==
    {<<"mailto:", "info", "@", "acme", ".", "it">>,
     <<"mailto:", " ", "info", "@", "acme", ".", "it", " ">>,
     <<"mailto:">>,
     <<"mailto:", "info">>,
     <<"mailto:", "a", ".", "b", "@", "acme">>,
     <<"mailto:", "x", "@", "gmail", ".", "com">>}
MailtoLinks == SeqsUpTo(Hrefs, MaxMailto)
\* what the e-mail pattern finds in the text of the page, in order
Addresses ==
    {<<"sales", "@", "acme", ".", "it">>, <<"x", "@", "GMAIL", ".", "com">>,
     <<"y", "@", "hotmail", ".", "it">>}
EmailMatches == SeqsUpTo(Addresses, MaxMatches)

Page(name, desc, elements, links, matches) ==
    [company_name |-> name, description |-> desc, elements |-> elements,
     mailto |-> links, email_matches |-> matches]
\* the detail pages considered: one part of the page varies at a time, the
\* company name is there or not in each
NamePages == {Page(n, NoHits, <<>>, <<>>, <<>>) : n \in FieldHits}
DescriptionPages ==
    {Page(n, d, <<>>, <<>>, <<>>) : n \in {NoHits, PlainHits}, d \in FieldHits}
LabelPages ==
    {Page(n, NoHits, e, <<>>, <<>>) : n \in {NoHits, PlainHits}, e \in Elements}
\* a label of the region that nothing follows
LoneLabel == <<<<"Regione">>>>
EmailPages ==
    {Page(NoHits, NoHits, e, l, m) :
        e \in {<<>>, LoneLabel}, l \in MailtoLinks, m \in EmailMatches}
DetailPages == NamePages \cup DescriptionPages \cup LabelPages \cup EmailPages

\* no document, no record
NoResponse == Page(NoHits, NoHits, <<>>, <<>>, <<>>)
NoItem ==
    [company_name |-> Null, creation_date |-> Null, region |-> Null,
     description |-> Null, email |-> Null, scanned |-> FALSE, raised |-> FALSE]

\* ------------------------------------------------------------- output file
\* the file does not exist
NoFile == [exists |-> FALSE, header |-> 0, rows |-> 0]

\* open(output_file, 'w'); writeheader(); writerow(company) for each record
RewriteFile(n) == [exists |-> TRUE, header |-> 1, rows |-> n]

\* v2 save_to_csv(data): nothing is written for an empty list
SaveToCsvV2(file, data) == IF data = 0 THEN file ELSE RewriteFile(data)

\* v3 save_to_csv(data): as v2, the header taken from the first record
SaveToCsvV3(file, data) == IF data = 0 THEN file ELSE RewriteFile(data)

\* what a save adds to the history: the header is written (again), and rows
\* this run wrote before are truncated away and written anew
NoteSave(h, file, data) ==
    IF data = 0 THEN h
    ELSE [h EXCEPT !.header_writes = Min(@ + 1, 2),
                   !.rewrote = @ \/ file.rows > 0]

\* ------------------------------------------------------- listing parsers
\* v2 parse_company_list_page(html): every href found is appended
ParseCompanyListPage(doc) == doc.links

\* the orders in which list(set(companies)) can enumerate a set
Orders(S) == {s \in SeqsUpTo(S, Cardinality(S)) : Len(s) = Cardinality(S) /\ Range(s) = S}

\* v3 find_company_links(): the hrefs found, duplicates removed through a set
FindCompanyLinks(dom) == Orders(Range(dom.links))

\* a crawl() that forgets the slice, to try the cap on records
AllLinks(links, per_page) == links

\* v2: if companies_per_page: company_links = company_links[:companies_per_page]
\* v3: the same slice, taken only when the list is longer
LimitLinks(links, per_page) ==
    IF per_page = 0 THEN links ELSE SubSeq(links, 1, Min(per_page, Len(links)))

\* v2 get_next_page_url(html) / v3 find_next_page_link(): href of the next control
GetNextPageUrl(doc) == doc.next
FindNextPageLink(dom) == dom.next

\* ------------------------------------------------------------- get_page
\* v2 can_fetch(url): robot_parser.can_fetch('*', url)
CanFetch(rules, url) == url \notin rules

\* whether get_page(url) sends a request: v2 get_page returns None before the
\* request when can_fetch(url) is false; v3 get_page calls driver.get(url)
\* without asking
SendsRequest(url) == IF variant = "v2" THEN CanFetch(robots, url) ELSE TRUE

\* ------------------------------------------------------------- history
NoteFetch(h, url) ==
    [h EXCEPT !.fetched = @ \cup {url}, !.refetched = @ \/ url \in h.fetched,
              !.contacted_disallowed = @ \/ (url \in robots /\ SendsRequest(url))]

NoPageLeft == [pages |-> 0, failed |-> FALSE, own_next |-> NoUrl, followed |-> NoUrl]

\* a listing page is fetched: links are the detail links it yields
NoteListing(h, url, ok, doc, links) ==
    [NoteFetch(h, url) EXCEPT
        !.listing_fetches = @ + 1,
        !.first_failed = @ \/ (h.listing_fetches = 0 /\ ~ok),
        !.page_failed = FALSE,
        !.listing_next = IF ok THEN doc.next ELSE NoUrl,
        !.unprocessed = Len(links),
        !.left = NoPageLeft,
        !.exit_reason = IF ok THEN @ ELSE "fetch_failed"]

\* a detail link is processed
NoteDetail(h, url, failed) ==
    [NoteFetch(h, url) EXCEPT
        !.page_failed = @ \/ failed,
        !.unprocessed = @ - 1]

\* the crawl leaves a listing page, following the next-page URL it found
NoteLeave(h, followed) ==
    [h EXCEPT !.page_failed = FALSE, !.listing_next = NoUrl,
              !.left = [pages |-> 1, failed |-> h.page_failed,
                        own_next |-> h.listing_next, followed |-> followed]]

\* fetched         URLs a fetch was attempted for
\* listing_fetches crawl(): number of get_page calls for listing pages
\* first_failed    the first get_page call returned no document
\* page_failed     a detail page of the current listing page failed
\* listing_next    next control of the current listing page's own document
\* unprocessed     detail links of the current listing page not yet attempted
\* left            the listing page the crawl has just left (pages = 1), until
\*                 the next one is fetched: whether a detail page of it failed,
\*                 the next control of its own document, and the next-page URL
\*                 the crawl took from it
\* exit_reason     why the pagination loop ended
\* refetched       a URL was fetched that had been fetched before
\* emitted_dup     a spider's listing step requested one URL twice for one page
\* contacted_disallowed  a request was sent for a URL that robots.txt disallows
\* gave_up         handle_error of startup_crawler.py let a failed request go
\* header_writes   times the header row was written (counted up to 2)
\* rewrote         a save truncated rows this run had written
InitHist ==
    [fetched |-> {}, listing_fetches |-> 0, first_failed |-> FALSE,
     page_failed |-> FALSE, listing_next |-> NoUrl, unprocessed |-> 0,
     left |-> NoPageLeft,
     exit_reason |-> "", header_writes |-> 0, rewrote |-> FALSE,
     refetched |-> FALSE, emitted_dup |-> FALSE, gave_up |-> FALSE,
     contacted_disallowed |-> FALSE]

\* ----------------------------------------------------------------- Init
\* (the spiders take no max_pages and no companies_per_page: the two variables
\* keep one value in their runs; so do robots in the spiders, which do not
\* read robots.txt, and debug outside startup_crawler.py, the one program that
\* has the flag; v3.py does not read robots.txt either and gets the rules
\* without the listing page)
Init ==
    /\ variant \in Variants
    /\ max_pages \in (IF variant \in Spiders THEN {1} ELSE 1..MaxPagesArg)
    /\ companies_per_page \in (IF variant \in Spiders THEN {0} ELSE 0..MaxPerPageArg)
    /\ pc = IF variant \in Spiders THEN "init" ELSE "loop"
    /\ current_url = BaseUrl
    /\ current_page = 1
    /\ html = BlankDoc
    /\ driver_dom = BlankDoc
    /\ company_links = <<>>
    /\ link_idx = 1
    /\ all_companies_data = 0
    /\ csv = NoFile
    /\ browser_open = (variant = "v3")
    /\ scheduler = <<>>
    /\ inflight = {}
    /\ seen = {}
    /\ processed_urls = {}
    /\ company_count = 0
    /\ items = 0
    /\ robots \in (IF variant = "v2" THEN RobotsRules ELSE IF variant = "v3" THEN {{}, CompanyDisallowed} ELSE {{}})
    /\ debug \in (IF variant = "spiderB" THEN BOOLEAN ELSE {FALSE})
    /\ snapshots = {}
    /\ response = NoResponse
    /\ item = NoItem
    /\ hist = InitHist

\* ------------------------------------------------------------ v2 crawl()
\* the loop guard shifted by one page, to try the page ceiling of crawl()
WhileGuardOffByOne(url, page, max) == url # NoUrl /\ page <= max + 1

\* while current_url and current_page <= max_pages (the same line in v3.py)
WhileGuard(url, page, max) == url # NoUrl /\ page <= max

\* the guard fails
V2LoopExit ==
    /\ variant = "v2" /\ pc = "loop"
    /\ ~WhileGuard(current_url, current_page, max_pages)
    /\ pc' = "save"
    /\ hist' = [hist EXCEPT !.exit_reason =
                    IF current_url = NoUrl THEN "no_next" ELSE "max_pages"]
    /\ UNCHANGED spiderVars
    /\ UNCHANGED <<variant, max_pages, companies_per_page, current_url, current_page,
                   html, driver_dom, company_links, link_idx, all_companies_data,
                   csv, browser_open>>
    /\ UNCHANGED <<sideVars, extractVars>>

\* html = get_page(current_url) returns None: break
V2ListingFails ==
    /\ variant = "v2" /\ pc = "loop"
    /\ WhileGuard(current_url, current_page, max_pages)
    /\ pc' = "save"
    /\ hist' = NoteListing(hist, current_url, FALSE, BlankDoc, <<>>)
    /\ UNCHANGED spiderVars
    /\ UNCHANGED <<variant, max_pages, companies_per_page, current_url, current_page,
                   html, driver_dom, company_links, link_idx, all_companies_data,
                   csv, browser_open>>
    /\ UNCHANGED <<sideVars, extractVars>>

\* html = get_page(current_url); company_links = parse_company_list_page(html)
V2Listing ==
    /\ variant = "v2" /\ pc = "loop"
    /\ WhileGuard(current_url, current_page, max_pages)
    /\ SendsRequest(current_url)
    /\ \E doc \in ListingDocs(BaseUrl) :
         LET links == LimitLinks(ParseCompanyListPage(doc), companies_per_page)
         IN  /\ html' = doc
             /\ company_links' = links
             /\ link_idx' = 1
             /\ pc' = IF links = <<>> THEN "paginate" ELSE "detail"
             /\ hist' = NoteListing(hist, current_url, TRUE, doc, links)
    /\ UNCHANGED spiderVars
    /\ UNCHANGED <<variant, max_pages, companies_per_page, current_url, current_page,
                   driver_dom, all_companies_data, csv, browser_open>>
    /\ UNCHANGED <<sideVars, extractVars>>

\* one iteration of "for link in company_links": get_page, extract_company_data
\*   "fail"  get_page returns None (robots.txt disallows the URL, or the
\*           request fails), extract_company_data returns None
\*   "raise" a selector raises inside extract_company_data, which catches it
\*           and returns the partly filled record
\*   "empty" no selector matches, every field but URL is ''
\*   "data"  some field is found
V2Detail ==
    /\ variant = "v2" /\ pc = "detail"
    /\ link_idx <= Len(company_links)
    /\ \E outcome \in (IF SendsRequest(company_links[link_idx])
                       THEN {"fail", "raise", "empty", "data"} ELSE {"fail"}) :
         /\ all_companies_data' =
                IF outcome = "fail" THEN all_companies_data ELSE all_companies_data + 1
         /\ hist' = NoteDetail(hist, company_links[link_idx], outcome \in {"fail", "raise"})
    /\ link_idx' = link_idx + 1
    /\ pc' = IF link_idx = Len(company_links) THEN "paginate" ELSE "detail"
    /\ UNCHANGED spiderVars
    /\ UNCHANGED <<variant, max_pages, companies_per_page, current_url, current_page,
                   html, driver_dom, company_links, csv, browser_open>>
    /\ UNCHANGED <<sideVars, extractVars>>

\* current_url = get_next_page_url(html); current_page += 1
\* (html and company_links are not read again: they are cleared)
V2Paginate ==
    /\ variant = "v2" /\ pc = "paginate"
    /\ current_url' = GetNextPageUrl(html)
    /\ current_page' = current_page + 1
    /\ pc' = "loop"
    /\ html' = BlankDoc
    /\ company_links' = <<>>
    /\ link_idx' = 1
    /\ hist' = NoteLeave(hist, GetNextPageUrl(html))
    /\ UNCHANGED spiderVars
    /\ UNCHANGED <<variant, max_pages, companies_per_page, driver_dom,
                   all_companies_data, csv, browser_open>>
    /\ UNCHANGED <<sideVars, extractVars>>

\* after the loop: save_to_csv(all_companies_data)
V2Save ==
    /\ variant = "v2" /\ pc = "save"
    /\ csv' = SaveToCsvV2(csv, all_companies_data)
    /\ hist' = NoteSave(hist, csv, all_companies_data)
    /\ pc' = "done"
    /\ UNCHANGED spiderVars
    /\ UNCHANGED <<variant, max_pages, companies_per_page, current_url, current_page,
                   html, driver_dom, company_links, link_idx, all_companies_data,
                   browser_open>>
    /\ UNCHANGED <<sideVars, extractVars>>

\* ------------------------------------------------------------ v3 crawl()
\* while current_url and current_page <= max_pages: the guard fails
V3LoopExit ==
    /\ variant = "v3" /\ pc = "loop"
    /\ ~WhileGuard(current_url, current_page, max_pages)
    /\ pc' = "finally"
    /\ hist' = [hist EXCEPT !.exit_reason = "max_pages"]
    /\ UNCHANGED spiderVars
    /\ UNCHANGED <<variant, max_pages, companies_per_page, current_url, current_page,
                   html, driver_dom, company_links, link_idx, all_companies_data,
                   csv, browser_open>>
    /\ UNCHANGED <<sideVars, extractVars>>

\* if not self.get_page(current_url): break
V3ListingFails ==
    /\ variant = "v3" /\ pc = "loop"
    /\ WhileGuard(current_url, current_page, max_pages)
    /\ pc' = "finally"
    /\ driver_dom' = BlankDoc
    /\ hist' = NoteListing(hist, current_url, FALSE, BlankDoc, <<>>)
    /\ UNCHANGED spiderVars
    /\ UNCHANGED <<variant, max_pages, companies_per_page, current_url, current_page,
                   html, company_links, link_idx, all_companies_data, csv, browser_open>>
    /\ UNCHANGED <<sideVars, extractVars>>

\* get_page(current_url) loads the listing; company_links = find_company_links()
V3Listing ==
    /\ variant = "v3" /\ pc = "loop"
    /\ WhileGuard(current_url, current_page, max_pages)
    /\ \E doc \in ListingDocs(BaseUrl) :
       \E found \in FindCompanyLinks(doc) :
         LET links == LimitLinks(found, companies_per_page)
         IN  /\ driver_dom' = doc
             /\ company_links' = links
             /\ link_idx' = 1
             /\ pc' = IF links = <<>> THEN "paginate" ELSE "detail"
             /\ hist' = NoteListing(hist, current_url, TRUE, doc, links)
    /\ UNCHANGED spiderVars
    /\ UNCHANGED <<variant, max_pages, companies_per_page, current_url, current_page,
                   html, all_companies_data, csv, browser_open>>
    /\ UNCHANGED <<sideVars, extractVars>>

\* one iteration of "for link in company_links": extract_company_info(link)
\* inside try/except Exception
\*   "fail"  get_page(link) returns None; the browser shows what it showed
\*           before, or whatever part of the detail page it loaded
\*   "raise" a driver call of extract_company_info raises; crawl() logs it
\*   "empty" every field but URL is empty: the record is not appended
\*   "data"  the record is appended
V3Detail ==
    /\ variant = "v3" /\ pc = "detail"
    /\ link_idx <= Len(company_links)
    /\ \E outcome \in {"fail", "raise", "empty", "data"} :
         /\ all_companies_data' =
                IF outcome = "data" THEN all_companies_data + 1 ELSE all_companies_data
         /\ driver_dom' \in (IF outcome = "fail" THEN {driver_dom} ELSE {}) \cup DetailDocs
         /\ hist' = NoteDetail(hist, company_links[link_idx], outcome \in {"fail", "raise"})
    /\ link_idx' = link_idx + 1
    /\ pc' = IF link_idx = Len(company_links) THEN "paginate" ELSE "detail"
    /\ UNCHANGED spiderVars
    /\ UNCHANGED <<variant, max_pages, companies_per_page, current_url, current_page,
                   html, company_links, csv, browser_open>>
    /\ UNCHANGED <<sideVars, extractVars>>

\* the intermediate save of every second page, then find_next_page_link() on
\* the document the browser shows
\* (that document and company_links are not read again: they are cleared)
V3Paginate ==
    /\ variant = "v3" /\ pc = "paginate"
    /\ LET saving == current_page % 2 = 0 /\ all_companies_data > 0
           saved == IF saving THEN NoteSave(hist, csv, all_companies_data) ELSE hist
           next == FindNextPageLink(driver_dom)
       IN  /\ csv' = IF saving THEN SaveToCsvV3(csv, all_companies_data) ELSE csv
           /\ IF next # NoUrl
              THEN /\ current_url' = next
                   /\ current_page' = current_page + 1
                   /\ pc' = "loop"
                   /\ hist' = NoteLeave(saved, next)
              ELSE /\ pc' = "finally"
                   /\ hist' = [NoteLeave(saved, next) EXCEPT !.exit_reason = "no_next"]
                   /\ UNCHANGED <<current_url, current_page>>
    /\ driver_dom' = BlankDoc
    /\ company_links' = <<>>
    /\ link_idx' = 1
    /\ UNCHANGED spiderVars
    /\ UNCHANGED <<variant, max_pages, companies_per_page, html,
                   all_companies_data, browser_open>>
    /\ UNCHANGED <<sideVars, extractVars>>

\* except KeyboardInterrupt: the user interrupts the loop
\* except Exception: a statement of the loop outside the inner try raises (what
\* extract_company_info raises is caught by the inner try)
V3Interrupt ==
    /\ variant = "v3" /\ pc \in {"loop", "detail", "paginate"}
    /\ pc' = "finally"
    /\ \E reason \in {"interrupt"} \cup (IF pc = "detail" THEN {} ELSE {"exception"}) :
         hist' = [hist EXCEPT !.exit_reason = reason]
    /\ UNCHANGED spiderVars
    /\ UNCHANGED <<variant, max_pages, companies_per_page, current_url, current_page,
                   html, driver_dom, company_links, link_idx, all_companies_data,
                   csv, browser_open>>
    /\ UNCHANGED <<sideVars, extractVars>>

\* a finally block that does not save, to try the end of a run
V3FinallySkipsSave ==
    /\ variant = "v3" /\ pc = "finally"
    /\ browser_open' = FALSE
    /\ pc' = "done"
    /\ UNCHANGED spiderVars
    /\ UNCHANGED <<variant, max_pages, companies_per_page, current_url, current_page,
                   html, driver_dom, company_links, link_idx, all_companies_data,
                   csv, hist>>
    /\ UNCHANGED <<sideVars, extractVars>>

\* a finally block that leaves the driver running, to try the end of a run
V3FinallyKeepsBrowser ==
    /\ variant = "v3" /\ pc = "finally"
    /\ csv' = SaveToCsvV3(csv, all_companies_data)
    /\ hist' = NoteSave(hist, csv, all_companies_data)
    /\ pc' = "done"
    /\ UNCHANGED spiderVars
    /\ UNCHANGED <<variant, max_pages, companies_per_page, current_url, current_page,
                   html, driver_dom, company_links, link_idx, all_companies_data,
                   browser_open>>
    /\ UNCHANGED <<sideVars, extractVars>>

\* finally: save what was collected, quit the driver, return the list
V3Finally ==
    /\ variant = "v3" /\ pc = "finally"
    /\ csv' = SaveToCsvV3(csv, all_companies_data)
    /\ hist' = NoteSave(hist, csv, all_companies_data)
    /\ browser_open' = FALSE
    /\ pc' = "done"
    /\ UNCHANGED spiderVars
    /\ UNCHANGED <<variant, max_pages, companies_per_page, current_url, current_page,
                   html, driver_dom, company_links, link_idx, all_companies_data>>
    /\ UNCHANGED <<sideVars, extractVars>>

\* ------------------------------------------------------- Scrapy spiders
\* CONCURRENT_REQUESTS of custom_settings
ConcurrentRequestsA == 1
ConcurrentRequestsB == 2
ConcurrentRequests == IF variant = "spiderA" THEN ConcurrentRequestsA ELSE ConcurrentRequestsB
\* handle_error (startup_crawler.py) retries while retry_count is below this
MaxRetryCount == 2
\* a retry test that lets one more retry through, to try the retry bound
ShouldRetryOnceMore(retry_count) == retry_count <= MaxRetryCount
\* handle_error (startup_crawler.py): if retry_count < 2
ShouldRetry(retry_count) == retry_count < MaxRetryCount

\* scrapy.Request(url, callback=cb): meta retry_count absent (0), filtered
Req(url, cb) == [url |-> url, cb |-> cb, retry_count |-> 0, dont_filter |-> FALSE]

\* what the dupefilter remembers of a request: the whole URL for Scrapy's
\* default filter (spiderA), scheme, host and path for CacheURLFilter (spiderB)
\* a filter that tells the URLs of one path apart by their query strings
FilterKeyWithQuery(req) == req.url
\* (no request the spiders build carries meta['company_fingerprint'], so the
\* fingerprint test of CacheURLFilter.request_seen is never taken here)
FilterKey(req) == IF variant = "spiderB" THEN U(req.url.path, "") ELSE req.url

\* CacheURLFilter.request_seen / RFPDupeFilter.request_seen on filter state f:
\* the answer, and the filter state afterwards
RequestSeen(f, req) == FilterKey(req) \in f
AfterRequestSeen(f, req) == f \cup {FilterKey(req)}

\* the scheduler takes a request unless it is filtered and seen before; its
\* memory queue is a stack (LifoMemoryQueue)
Enqueue(st, req) ==
    IF req.dont_filter THEN [st EXCEPT !.sched = Append(@, req)]
    ELSE IF RequestSeen(st.seen, req) THEN st
    ELSE [sched |-> Append(st.sched, req), seen |-> AfterRequestSeen(st.seen, req)]

RECURSIVE EnqueueAll(_, _)
EnqueueAll(st, reqs) ==
    IF reqs = <<>> THEN st ELSE EnqueueAll(Enqueue(st, Head(reqs)), Tail(reqs))

RECURSIVE Dedup(_)
\* "if absolute_url not in company_links: company_links.append(absolute_url)"
Dedup(urls) ==
    IF urls = <<>> THEN <<>>
    ELSE LET front == Dedup(SubSeq(urls, 1, Len(urls) - 1))
             last == urls[Len(urls)]
         IN  IF last \in Range(front) THEN front ELSE Append(front, last)

RECURSIVE Requests(_, _)
Requests(urls, cb) ==
    IF urls = <<>> THEN <<>> ELSE <<Req(Head(urls), cb)>> \o Requests(Tail(urls), cb)

RECURSIVE Unprocessed(_, _)
\* spiderA: the links of company_links that pass "if url not in self.processed_urls"
Unprocessed(urls, done) ==
    IF urls = <<>> THEN <<>>
    ELSE IF Head(urls) \in done THEN Unprocessed(Tail(urls), done)
    ELSE <<Head(urls)>> \o Unprocessed(Tail(urls), done)

\* urljoin(response.url, action) if action else the default search URL
ActionUrl(action) == IF action = NoUrl THEN DefaultSearchUrl ELSE action

RECURSIVE ActionUrls(_)
ActionUrls(forms) ==
    IF forms = <<>> THEN <<>> ELSE <<ActionUrl(Head(forms))>> \o ActionUrls(Tail(forms))

\* startup_crawler.py parse(): 'search' in action or 'ricerca' in action
HintsSearch(action) == action.path \in {"/isin/search", "/isin/ricerca"}

\* startup_crawler.py parse(): the form that is submitted, as a list of 0 or 1
SearchForm(forms) ==
    IF forms = <<>> THEN <<>>
    ELSE IF \E i \in 1..Len(forms) : HintsSearch(forms[i])
         THEN <<forms[CHOOSE i \in 1..Len(forms) :
                    /\ HintsSearch(forms[i])
                    /\ \A j \in 1..(i - 1) : ~HintsSearch(forms[j])]>>
         ELSE <<forms[1]>>

\* the forms parse() submits, in order
\* spiderA: try_submit_form() submits every form of "for i, form in enumerate(forms)"
\* spiderB: search_form, if there is one
SubmittedForms(forms) == IF variant = "spiderA" THEN forms ELSE SearchForm(forms)

\* the hardcoded URLs parse() requests, in order
\* spiderA: search_urls, after try_submit_form() and whatever it found
\* spiderB: fallback_urls, in the else branch of "if search_form"
DirectUrls(forms) ==
    IF variant = "spiderA" THEN SearchUrls
    ELSE IF SearchForm(forms) # <<>> THEN <<>> ELSE FallbackUrls

\* the URLs parse() requests with callback parse_search_results, in order
\* spiderA: every form (try_submit_form), the search anchors, then search_urls
\* spiderB: the search form if there is one, otherwise fallback_urls
HomeRequests(doc) ==
    ActionUrls(SubmittedForms(doc.forms))
        \o (IF variant = "spiderA" THEN doc.anchors ELSE <<>>)
        \o DirectUrls(doc.forms)

\* the detail URLs parse_search_results() requests for one listing page
\* spiderA: the deduplicated links not in processed_urls
\* spiderB: the deduplicated links
DetailRequests(doc) ==
    IF variant = "spiderA" THEN Unprocessed(Dedup(doc.links), processed_urls)
    ELSE Dedup(doc.links)

\* the next-page request of parse_search_results(), as a list of 0 or 1
NextRequests(doc) == IF doc.next = NoUrl THEN <<>> ELSE <<doc.next>>

\* spiderA __init__: open(csv_file, 'w'), writeheader()
\* spiderB StartupExportPipeline.open_spider: open(file_path, 'wb')
OpenCsv == IF variant = "spiderA" THEN [exists |-> TRUE, header |-> 1, rows |-> 0]
           ELSE [exists |-> TRUE, header |-> 0, rows |-> 0]

\* StartupCsvPipeline.ensure_csv_exists()
EnsureCsvExists(file) ==
    IF file.exists THEN file ELSE [exists |-> TRUE, header |-> 1, rows |-> 0]

\* open(csv_file, 'a'); writerow(row)
AppendRow(file) == [file EXCEPT !.exists = TRUE, !.rows = @ + 1]

\* CsvItemExporter.export_item: the header goes before the first item
ExportItem(file) == [file EXCEPT !.header = 1, !.rows = @ + 1]

\* save_response(response, name): startUpCrawler.py writes the file whenever it
\* is called; startup_crawler.py is called under "if self.debug" and returns at
\* once "if not self.debug"
SaveResponse(files, name) ==
    IF variant = "spiderA" \/ debug THEN files \cup {name} ELSE files

\* the spider and its pipelines are constructed, start_urls is requested
SpiderOpen ==
    /\ variant \in Spiders /\ pc = "init"
    /\ csv' = IF variant = "spiderA" THEN EnsureCsvExists(OpenCsv) ELSE OpenCsv
    /\ hist' = [hist EXCEPT !.header_writes = IF variant = "spiderA" THEN 1 ELSE 0]
    /\ scheduler' = <<[Req(HomeUrl, "parse") EXCEPT !.dont_filter = TRUE]>>
    /\ pc' = "crawl"
    /\ UNCHANGED <<variant, inflight, seen, processed_urls, company_count, items>>
    /\ UNCHANGED crawlVars
    /\ UNCHANGED <<sideVars, extractVars>>

\* the engine hands a waiting request to the downloader
SpiderSend ==
    /\ variant \in Spiders /\ pc = "crawl"
    /\ Cardinality(inflight) < ConcurrentRequests
    /\ scheduler # <<>>
    /\ scheduler' = SubSeq(scheduler, 1, Len(scheduler) - 1)
    /\ inflight' = inflight \cup {scheduler[Len(scheduler)]}
    /\ UNCHANGED <<variant, pc, seen, processed_urls, company_count, items, csv, hist>>
    /\ UNCHANGED crawlVars
    /\ UNCHANGED <<sideVars, extractVars>>

\* parse(response) for the homepage
SpiderParse ==
    /\ variant \in Spiders /\ pc = "crawl"
    /\ items = 0
    /\ \E r \in inflight, doc \in HomeDocs :
         /\ r.cb = "parse"
         /\ LET st == EnqueueAll([sched |-> scheduler, seen |-> seen],
                                 Requests(HomeRequests(doc), "parse_search_results"))
            IN  /\ scheduler' = st.sched
                /\ seen' = st.seen
         /\ inflight' = inflight \ {r}
         /\ hist' = NoteFetch(hist, r.url)
    /\ UNCHANGED <<variant, pc, processed_urls, company_count, items, csv>>
    /\ UNCHANGED crawlVars
    /\ snapshots' = SaveResponse(snapshots, "homepage")
    /\ UNCHANGED <<robots, debug, extractVars>>

\* parse_search_results(response) for a listing page
SpiderParseSearchResults ==
    /\ variant \in Spiders /\ pc = "crawl"
    /\ items = 0
    /\ \E r \in inflight, doc \in ListingDocs(DefaultSearchUrl) :
         /\ r.cb = "parse_search_results"
         /\ LET details == DetailRequests(doc)
                st == EnqueueAll([sched |-> scheduler, seen |-> seen],
                                 Requests(details, "parse_company")
                                    \o Requests(NextRequests(doc), "parse_search_results"))
            IN  /\ scheduler' = st.sched
                /\ seen' = st.seen
                /\ processed_urls' = IF variant = "spiderA"
                                     THEN processed_urls \cup Range(details)
                                     ELSE processed_urls
                /\ hist' = [NoteFetch(hist, r.url) EXCEPT
                               !.emitted_dup = @ \/ HasDuplicates(details)]
         /\ inflight' = inflight \ {r}
    /\ UNCHANGED <<variant, pc, company_count, items, csv>>
    /\ UNCHANGED crawlVars
    /\ snapshots' = SaveResponse(snapshots, "search_results")
    /\ UNCHANGED <<robots, debug, extractVars>>

\* parse_company(response) for a detail page: the item is built and returned;
\* spiderA also appends it to the file itself (save_to_csv)
SpiderParseCompany ==
    /\ variant \in Spiders /\ pc = "crawl"
    /\ items = 0
    /\ \E r \in inflight :
         /\ r.cb = "parse_company"
         /\ inflight' = inflight \ {r}
         /\ hist' = NoteFetch(hist, r.url)
    /\ company_count' = company_count + 1
    /\ csv' = IF variant = "spiderA" THEN AppendRow(csv) ELSE csv
    /\ items' = items + 1
    /\ UNCHANGED <<variant, pc, scheduler, seen, processed_urls>>
    /\ UNCHANGED crawlVars
    /\ snapshots' = SaveResponse(snapshots, "company")
    /\ UNCHANGED <<robots, debug, extractVars>>

\* the item pipeline: StartupCsvPipeline.process_item (spiderA),
\* StartupExportPipeline.process_item (spiderB)
\* (the pipelines are synchronous: an item goes through them before the next
\* callback or errback runs, which is why those wait for items = 0)
SpiderProcessItem ==
    /\ variant \in Spiders /\ pc = "crawl"
    /\ items > 0
    /\ items' = items - 1
    /\ csv' = IF variant = "spiderA" THEN AppendRow(csv) ELSE ExportItem(csv)
    /\ hist' = IF variant = "spiderB" /\ csv.header = 0
               THEN [hist EXCEPT !.header_writes = 1] ELSE hist
    /\ UNCHANGED <<variant, pc, scheduler, inflight, seen, processed_urls, company_count>>
    /\ UNCHANGED crawlVars
    /\ UNCHANGED <<sideVars, extractVars>>

\* the download fails and the request's errback, handle_error(failure), runs
\* spiderA: it logs; spiderB: it returns the request again, retry_count + 1,
\* dont_filter set, while retry_count < 2
SpiderHandleError ==
    /\ variant \in Spiders /\ pc = "crawl"
    /\ items = 0
    /\ \E r \in inflight :
         /\ r.cb # "parse"
         /\ inflight' = inflight \ {r}
         /\ IF variant = "spiderB" /\ ShouldRetry(r.retry_count)
            THEN /\ scheduler' = Enqueue([sched |-> scheduler, seen |-> seen],
                                         [r EXCEPT !.retry_count = @ + 1,
                                                   !.dont_filter = TRUE]).sched
                 /\ hist' = NoteFetch(hist, r.url)
            ELSE /\ scheduler' = scheduler
                 /\ hist' = [NoteFetch(hist, r.url) EXCEPT
                                !.gave_up = @ \/ variant = "spiderB"]
    /\ UNCHANGED <<variant, pc, seen, processed_urls, company_count, items, csv>>
    /\ UNCHANGED crawlVars
    /\ UNCHANGED <<sideVars, extractVars>>

\* the download of start_urls fails: the request has no errback
SpiderStartFails ==
    /\ variant \in Spiders /\ pc = "crawl"
    /\ items = 0
    /\ \E r \in inflight :
         /\ r.cb = "parse"
         /\ inflight' = inflight \ {r}
         /\ hist' = [NoteFetch(hist, r.url) EXCEPT !.first_failed = TRUE]
    /\ UNCHANGED <<variant, pc, scheduler, seen, processed_urls, company_count, items, csv>>
    /\ UNCHANGED crawlVars
    /\ UNCHANGED <<sideVars, extractVars>>

\* nothing is waiting, in flight or in the pipelines: the spider closes
SpiderClose ==
    /\ variant \in Spiders /\ pc = "crawl"
    /\ scheduler = <<>> /\ inflight = {} /\ items = 0
    /\ pc' = "done"
    /\ UNCHANGED <<variant, csv, hist>>
    /\ UNCHANGED spiderVars
    /\ UNCHANGED crawlVars
    /\ UNCHANGED <<sideVars, extractVars>>

\* ------------------------------------------------------------------ Next
Next ==
    \/ V2LoopExit \/ V2ListingFails \/ V2Listing \/ V2Detail \/ V2Paginate \/ V2Save
    \/ V3LoopExit \/ V3ListingFails \/ V3Listing \/ V3Detail \/ V3Paginate
    \/ V3Interrupt \/ V3Finally
    \/ SpiderOpen \/ SpiderSend \/ SpiderParse \/ SpiderParseSearchResults
    \/ SpiderParseCompany \/ SpiderProcessItem \/ SpiderHandleError
    \/ SpiderStartFails \/ SpiderClose

Spec == Init /\ [][Next]_vars

\* ======================================================== field extraction
\* text that is there and not blank: 'if content and content.strip()'
NonEmpty(text) == text # Null /\ Strip(text) # Empty

\* response.css(selector).get(): the first match or None
SelectorGet(hits) == IF hits = <<>> THEN Null ELSE hits[1]

\* startUpCrawler.py extract_with_selectors: the first selector whose first
\* match is not blank gives the value
ExtractWithSelectors(field_hits) ==
    LET contents == [k \in 1..Len(field_hits) |-> SelectorGet(field_hits[k])]
    IN  Strip(FirstWhere(contents, NonEmpty, Null))

\* v3.py extract_text_by_methods: every element of every method in turn, the
\* first text that is not blank; "" when there is none (the last resort, the
\* element after a text that names the label, finds nothing in these pages,
\* which have no such text)
ExtractTextByMethods(field_hits) ==
    Strip(FirstWhere(Flatten(field_hits), NonEmpty, Empty))

\* v2.py: soup.select_one(a) or soup.select_one(b), then element.text.strip()
SelectOne(field_hits) ==
    LET found == SelectSeq(field_hits, LAMBDA hits : hits # <<>>)
    IN  IF found = <<>> THEN Empty ELSE Strip(found[1][1])

\* re.sub(r'\s+', ' ', x)
RECURSIVE CollapseSpaces(_)
CollapseSpaces(s) ==
    IF Len(s) < 2 THEN s
    ELSE IF s[1] = " " /\ s[2] = " " THEN CollapseSpaces(Tail(s))
    ELSE <<s[1]>> \o CollapseSpaces(Tail(s))

\* StartupLoader.company_name_in, description_in
CleanText(x) == CollapseSpaces(Strip(x))
\* TakeFirst(): the first value that is neither None nor ''
TakeFirst(values) ==
    FirstWhere(values, LAMBDA v : v # Null /\ v # Empty, Null)
\* loader.add_css(field, selector) for every selector of the list: the values
\* collected for the field (the xpath pass that follows when nothing was
\* collected reads the same elements and adds nothing here)
Collected(field_hits) ==
    LET all == Flatten(field_hits) IN [k \in 1..Len(all) |-> CleanText(all[k])]
\* StartupLoader: default_output_processor = TakeFirst()
LoadFirst(field_hits) == TakeFirst(Collected(field_hits))
\* StartupLoader: description_out = Join(' '); a field without collected
\* values is not set
LoadDescription(field_hits) ==
    IF Collected(field_hits) = <<>> THEN Null ELSE JoinSpace(Collected(field_hits))

\* ---------------------------------------------------------- labelled fields
\* contains(text(), "label")
HasLabel(text, label) == HasToken(text, label)
\* full_text.split(':', 1)[1].strip() when full_text holds a colon
ColonValue(text) ==
    IF HasToken(text, ":") THEN Strip(AfterFirst(text, ":")) ELSE Empty
\* the first text of the k-th element, stripped; nothing past the last one
TextAt(elements, k) ==
    IF k \in 1..Len(elements) THEN Strip(elements[k]) ELSE Empty
\* ./following-sibling::*[1]//text()
NextSibling(elements, i) == TextAt(elements, i + 1)
\* ../*[position()=count(../*[.=current()])+1]//text(): current() is a
\* function of XSLT that the XPath engine behind response.xpath does not
\* have, so the call raises (ValueError: XPath error: Unregistered function)
\* whenever it is made
XPathError == <<"ValueError">>
ParentNext(elements, i) == XPathError
\* the value that follows the element: the next sibling, else the parent's
SiblingValue(elements, i) ==
    IF NextSibling(elements, i) # Empty THEN NextSibling(elements, i)
    ELSE ParentNext(elements, i)

\* startUpCrawler.py extract_labeled_field, method 1, for one element: the
\* text after the colon, else the sibling value
ElementValue(elements, i) ==
    IF ColonValue(elements[i]) # Empty THEN ColonValue(elements[i])
    ELSE SiblingValue(elements, i)

\* startUpCrawler.py extract_labeled_field: label by label, element by
\* element, the first value found, or the error raised on the way (the pages
\* have no table and no definition list, which methods 2 and 3 read)
ExtractLabeledField(elements, labels) ==
    LET OfLabel(label) ==
            [i \in 1..Len(elements) |->
                IF HasLabel(elements[i], label) THEN ElementValue(elements, i) ELSE Empty]
        tries == Flatten([l \in 1..Len(labels) |-> OfLabel(labels[l])])
    IN  FirstWhere(tries, LAMBDA v : v # Empty, Null)

\* startup_crawler.py extract_field_with_labels: label by label, first the
\* elements with "label:" (method 1), then the elements with the label and
\* the value that follows them (method 2); the value found, the error raised
\* on the way, or nothing added to the loader (the pages have no table and no
\* definition list, which methods 3 and 4 read)
ExtractFieldWithLabels(elements, labels) ==
    LET Method1(label) ==
            [i \in 1..Len(elements) |->
                IF Contains(elements[i], <<label, ":">>) THEN ColonValue(elements[i])
                ELSE Empty]
        Method2(label) ==
            [i \in 1..Len(elements) |->
                IF HasLabel(elements[i], label) THEN SiblingValue(elements, i) ELSE Empty]
        tries == Flatten([l \in 1..Len(labels) |-> Method1(labels[l]) \o Method2(labels[l])])
    IN  FirstWhere(tries, LAMBDA v : v # Empty, Null)

\* a date, as the date patterns take it
IsDate(tok) == tok = "01/02/2020"
\* the words that the date patterns look for: startUpCrawler.py matches them
\* with re.I, startup_crawler.py as they are written, in small letters
DateWordsIgnoreCase == {"Costituzione", "costituita"}
DateWords == {"costituita"}
\* re.findall(pattern, response.text) of the date patterns: the date after a
\* date word on a line
FindDates(elements, words) ==
    LET DateOf(text) ==
            IF \E i, j \in 1..Len(text) : i < j /\ text[i] \in words /\ IsDate(text[j])
            THEN <<SelectSeq(text, LAMBDA tok : IsDate(tok))>> ELSE <<>>
    IN  Flatten([i \in 1..Len(elements) |-> DateOf(elements[i])])
\* StartupLoader.creation_date_in: re.sub(r'[^\d/.-]', '', x.strip())
CleanDate(x) == SelectSeq(Strip(x), LAMBDA tok : IsDate(tok) \/ tok = ".")

\* startUpCrawler.py parse_company, step 2
CreationDateA(page) ==
    LET labelled == ExtractLabeledField(page.elements, DateLabels)
        dates == FindDates(page.elements, DateWordsIgnoreCase)
    IN  IF labelled # Null THEN labelled
        ELSE IF dates # <<>> THEN dates[1] ELSE Null
\* startup_crawler.py parse_company, steps 2 and 3: a labelled value is
\* collected after creation_date_in, the pattern is tried when nothing was
\* collected
CreationDateB(page) ==
    LET labelled == ExtractFieldWithLabels(page.elements, DateLabels)
        dates == FindDates(page.elements, DateWords)
    IN  IF labelled = XPathError THEN XPathError
        ELSE IF labelled # Null THEN TakeFirst(<<CleanDate(labelled)>>)
        ELSE IF dates # <<>> THEN TakeFirst(<<CleanDate(dates[1])>>) ELSE Null


\* ------------------------------------------------------------------ e-mail
\* the link without the removal of the prefix, to try the e-mail of a link
EmailOfLinkKeepsPrefix(link) == Strip(link)
\* link.replace('mailto:', '').strip()
EmailOfLink(link) == Strip(Replace(link, "mailto:"))
\* startUpCrawler.py: "Basic validation"
BasicValidation(email) == HasToken(email, "@") /\ HasToken(email, ".")
\* StartupLoader.email_in, third function
ValidEmail(x) == HasToken(x, "@") /\ HasToken(AfterLast(x, "@"), ".")
\* StartupLoader.email_in: the values that an added value leaves in the loader
EmailIn(x) ==
    LET cleaned == Replace(Strip(x), "mailto:")
    IN  IF ValidEmail(cleaned) THEN <<cleaned>> ELSE <<>>

\* the domains of the "common non-company emails"
Denylist ==
    {<<"example", ".", "com">>, <<"gmail", ".", "com">>, <<"libero", ".", "it">>,
     <<"hotmail">>}
\* any(domain in e.lower() for domain in [...])
Denylisted(e) == \E domain \in Denylist : Contains(Lower(e), domain)
\* filtered_emails
FilteredEmails(email_matches) == SelectSeq(email_matches, LAMBDA e : ~Denylisted(e))
\* the scan without the filter, to try the choice among the matches
ScanEmailFirstMatch(email_matches) ==
    IF email_matches # <<>> THEN email_matches[1] ELSE Null
\* the address that the scan of the page text settles on, None without a match
ScanEmail(email_matches) ==
    IF FilteredEmails(email_matches) # <<>> THEN FilteredEmails(email_matches)[1]
    ELSE IF email_matches # <<>> THEN email_matches[1]
    ELSE Null

\* startUpCrawler.py parse_company, step 6: the first link that passes the
\* validation, else the scan
EmailA(page) ==
    LET emails == [k \in 1..Len(page.mailto) |-> EmailOfLink(page.mailto[k])]
        valid == SelectSeq(emails, BasicValidation)
    IN  IF valid # <<>> THEN [email |-> valid[1], scanned |-> FALSE]
        ELSE [email |-> ScanEmail(page.email_matches), scanned |-> TRUE]

\* startup_crawler.py parse_company, step 5: the first link only, through
\* email_in; the scan when nothing was collected, its address through
\* email_in as well
EmailB(page) ==
    LET linked == IF page.mailto = <<>> THEN <<>> ELSE EmailIn(page.mailto[1])
        found == ScanEmail(page.email_matches)
    IN  IF linked # <<>> THEN [email |-> TakeFirst(linked), scanned |-> FALSE]
        ELSE [email |-> IF found = Null THEN Null ELSE TakeFirst(EmailIn(found)),
              scanned |-> TRUE]

\* v2.py extract_company_data: the first link, no validation, no scan
EmailV2(page) ==
    [email |-> IF page.mailto = <<>> THEN Empty ELSE EmailOfLink(page.mailto[1]),
     scanned |-> FALSE]

\* v3.py extract_company_info: the href of the first link (the first method),
\* else the first match of the pattern in the page source (the pages have no
\* .email element and no Email label, which the other methods read)
EmailV3(page) ==
    LET email == ExtractTextByMethods(<<page.mailto>>)
    IN  IF email # Empty THEN [email |-> EmailOfLink(email), scanned |-> FALSE]
        ELSE [email |-> IF page.email_matches = <<>> THEN Empty
                        ELSE page.email_matches[1],
              scanned |-> TRUE]

\* ----------------------------------------------------- the record of a page
\* startUpCrawler.py parse_company (city and telephone are read as the region
\* is, with their own labels, which no page here has)
ItemA(page) ==
    [company_name |->
        IF ExtractWithSelectors(page.company_name) # Null
        THEN ExtractWithSelectors(page.company_name) ELSE <<"Unknown", " ", "Company">>,
     creation_date |-> CreationDateA(page),
     region |-> ExtractLabeledField(page.elements, RegionLabels),
     description |-> ExtractWithSelectors(page.description),
     email |-> EmailA(page).email,
     scanned |-> EmailA(page).scanned,
     raised |-> FALSE]

\* startup_crawler.py parse_company and loader.load_item()
ItemB(page) ==
    [company_name |-> LoadFirst(page.company_name),
     creation_date |-> CreationDateB(page),
     region |-> ExtractFieldWithLabels(page.elements, RegionLabels),
     description |-> LoadDescription(page.description),
     email |-> EmailB(page).email,
     scanned |-> EmailB(page).scanned,
     raised |-> FALSE]

\* v2.py extract_company_data (its region and date come from elements of
\* class region and establishment-date, which no page here has)
ItemV2(page) ==
    [company_name |-> SelectOne(page.company_name),
     creation_date |-> Empty,
     region |-> Empty,
     description |-> SelectOne(page.description),
     email |-> EmailV2(page).email,
     scanned |-> FALSE,
     raised |-> FALSE]

\* v3.py extract_company_info: the fields after the method chains (the pages
\* have none of the elements that the chains of the region and of the date read)
FieldsV3(page) ==
    [company_name |-> ExtractTextByMethods(page.company_name),
     creation_date |-> Empty,
     region |-> Empty,
     description |-> ExtractTextByMethods(page.description),
     email |-> EmailV3(page).email,
     scanned |-> EmailV3(page).scanned,
     raised |-> FALSE]

\* company_data["URL"]: the address of the page
PageUrl == <<"https://startup.registroimprese.it/company/1">>

\* "if not any(company_data.values())": the values are those of the fields
\* and of the key "URL"
LastDitchRuns(it) ==
    ~\E v \in {it.company_name, it.description, it.email, it.creation_date,
               it.region, PageUrl} : v # Empty

\* "region" in label.text.strip().lower()
MapsToRegion(text) == HasToken(text, "Regione")

\* the last-ditch scan: label by label (the elements are labels without a
\* "for" attribute), the text of the element that follows goes to the field
\* the label maps to while that field is empty; a label that nothing follows
\* is passed over (no label here maps to a field other than the region)
StructuredData(it, elements) ==
    LET values == [i \in 1..Len(elements) |->
                      IF MapsToRegion(elements[i]) THEN NextSibling(elements, i) ELSE Empty]
    IN  [it EXCEPT !.region =
            IF @ = Empty THEN FirstWhere(values, LAMBDA v : v # Empty, Empty) ELSE @]

\* v3.py extract_company_info
ItemV3(page) ==
    IF LastDitchRuns(FieldsV3(page)) THEN StructuredData(FieldsV3(page), page.elements)
    ELSE FieldsV3(page)

\* an exception left the callback: no record
Raises(it) == it.creation_date = XPathError \/ it.region = XPathError
Aborted == [NoItem EXCEPT !.raised = TRUE]

\* the state at the start of the callback of a detail page: the spider is
\* open, the crawl has the page
ExtractInit ==
    /\ variant \in Variants
    /\ response \in DetailPages
    /\ item = NoItem
    /\ pc = "page"
    /\ max_pages = 1
    /\ companies_per_page = 0
    /\ current_url = BaseUrl
    /\ current_page = 1
    /\ html = BlankDoc
    /\ driver_dom = BlankDoc
    /\ company_links = <<>>
    /\ link_idx = 1
    /\ all_companies_data = 0
    /\ csv = IF variant \in Spiders THEN OpenCsv ELSE NoFile
    /\ browser_open = (variant = "v3")
    /\ scheduler = <<>>
    /\ inflight = {}
    /\ seen = {}
    /\ processed_urls = {}
    /\ company_count = 0
    /\ items = 0
    /\ robots = {}
    /\ debug = FALSE
    /\ snapshots = {}
    /\ hist = InitHist

\* startUpCrawler.py parse_company: the snapshot, the fields, then the
\* counter, save_to_csv and the item for the pipeline
ParseCompanyA ==
    /\ variant = "spiderA" /\ pc = "page"
    /\ snapshots' = SaveResponse(snapshots, "company")
    /\ pc' = "parsed"
    /\ IF Raises(ItemA(response))
       THEN /\ item' = Aborted
            /\ UNCHANGED <<csv, company_count, items>>
       ELSE /\ item' = ItemA(response)
            /\ company_count' = company_count + 1
            /\ csv' = AppendRow(csv)
            /\ items' = items + 1
    /\ UNCHANGED <<variant, scheduler, inflight, seen, processed_urls, response,
                   robots, debug, hist>>
    /\ UNCHANGED crawlVars

\* startup_crawler.py parse_company
ParseCompanyB ==
    /\ variant = "spiderB" /\ pc = "page"
    /\ snapshots' = SaveResponse(snapshots, "company")
    /\ pc' = "parsed"
    /\ IF Raises(ItemB(response))
       THEN /\ item' = Aborted
            /\ UNCHANGED <<company_count, items>>
       ELSE /\ item' = ItemB(response)
            /\ company_count' = company_count + 1
            /\ items' = items + 1
    /\ UNCHANGED <<variant, csv, scheduler, inflight, seen, processed_urls,
                   response, robots, debug, hist>>
    /\ UNCHANGED crawlVars

\* v2.py crawl(): extract_company_data(company_html, link) and the append
ExtractCompanyData ==
    /\ variant = "v2" /\ pc = "page"
    /\ item' = ItemV2(response)
    /\ all_companies_data' = all_companies_data + 1
    /\ pc' = "parsed"
    /\ UNCHANGED <<variant, max_pages, companies_per_page, current_url, current_page,
                   html, driver_dom, company_links, link_idx, csv, browser_open,
                   response, hist>>
    /\ UNCHANGED <<spiderVars, sideVars>>

\* v3.py crawl(): extract_company_info(link) and the append, made when a
\* field other than the URL has a value
ExtractCompanyInfo ==
    /\ variant = "v3" /\ pc = "page"
    /\ item' = ItemV3(response)
    /\ all_companies_data' =
          IF \E f \in {"company_name", "description", "email"} : ItemV3(response)[f] # Empty
          THEN all_companies_data + 1 ELSE all_companies_data
    /\ pc' = "parsed"
    /\ UNCHANGED <<variant, max_pages, companies_per_page, current_url, current_page,
                   html, driver_dom, company_links, link_idx, csv, browser_open,
                   response, hist>>
    /\ UNCHANGED <<spiderVars, sideVars>>

ExtractNext == ParseCompanyA \/ ParseCompanyB \/ ExtractCompanyData \/ ExtractCompanyInfo

SpecExtract == ExtractInit /\ [][ExtractNext]_vars


\* ====================================================== links of a listing
\* most anchors of a listing page
MaxAnchors == 2

\* the href of an anchor: written with or without the site in front
ListingHrefs ==
    {[abs |-> FALSE, path |-> "/company/1"], [abs |-> TRUE, path |-> "/company/1"],
     [abs |-> FALSE, path |-> "/company/2"], [abs |-> FALSE, path |-> "/azienda/3"]}
\* an anchor of the page: its href and which of the first two structural
\* selectors of the program's list match it ('.company-item a' and
\* '.result-item a' in startUpCrawler.py, '.startup-item a' and
\* '.company-item a' in v3.py)
Anchors == [href : ListingHrefs, matched : SUBSET {1, 2}]
ListingPages == SeqsUpTo(Anchors, MaxAnchors)

\* urljoin(response.url, href); element.get_attribute("href") of the browser
\* gives the same absolute URL
UrlJoin(href) == [abs |-> TRUE, path |-> href.path]
\* "/company/" in href; re.search(r'/(company|...)/', href)
IsCompanyPath(href) == href.path \in {"/company/1", "/company/2"}
\* response.css(selector): the anchors that the k-th selector matches
CssAnchors(page, k) == SelectSeq(page, LAMBDA a : k \in a.matched)
\* the absolute URLs of a sequence of anchors
AbsoluteUrls(anchors) == [i \in 1..Len(anchors) |-> UrlJoin(anchors[i].href)]
\* the anchors whose href has the path of a company page
CompanyAnchors(anchors) == SelectSeq(anchors, LAMBDA a : IsCompanyPath(a.href))

\* startUpCrawler.py parse_search_results: the loop over the selectors has no
\* break, every selector adds its links; the scan of all anchors when the
\* list is still empty
SearchResultLinks(page) ==
    LET specific == Dedup(AbsoluteUrls(CssAnchors(page, 1) \o CssAnchors(page, 2)))
    IN  IF specific # <<>> THEN specific
        ELSE Dedup(AbsoluteUrls(CompanyAnchors(page)))

\* v3.py find_company_links, before the set: the first selector that gives a
\* link with a company path, else every anchor with such a path
CompaniesFound(page) ==
    LET first == AbsoluteUrls(CompanyAnchors(CssAnchors(page, 1)))
        second == AbsoluteUrls(CompanyAnchors(CssAnchors(page, 2)))
    IN  IF first # <<>> THEN first
        ELSE IF second # <<>> THEN second
        ELSE AbsoluteUrls(CompanyAnchors(page))
\* v3.py find_company_links: list(set(companies))
UniqueCompanies(page) == Orders(Range(CompaniesFound(page)))

\* a listing page has arrived; nothing else is going on
ListingInit ==
    /\ variant \in {"spiderA", "v3"}
    /\ response \in ListingPages
    /\ item = NoItem
    /\ pc = "listing"
    /\ max_pages = 1
    /\ companies_per_page = 0
    /\ current_url = BaseUrl
    /\ current_page = 1
    /\ html = BlankDoc
    /\ driver_dom = BlankDoc
    /\ company_links = <<>>
    /\ link_idx = 1
    /\ all_companies_data = 0
    /\ csv = IF variant \in Spiders THEN OpenCsv ELSE NoFile
    /\ browser_open = (variant = "v3")
    /\ scheduler = <<>>
    /\ inflight = {}
    /\ seen = {}
    /\ processed_urls = {}
    /\ company_count = 0
    /\ items = 0
    /\ robots = {}
    /\ debug = FALSE
    /\ snapshots = {}
    /\ hist = InitHist

\* startUpCrawler.py parse_search_results, lines 184-217: the snapshot and the
\* list of company links
CollectCompanyLinks ==
    /\ variant = "spiderA" /\ pc = "listing"
    /\ snapshots' = SaveResponse(snapshots, "search_results")
    /\ company_links' = SearchResultLinks(response)
    /\ pc' = "links"
    /\ UNCHANGED <<variant, max_pages, companies_per_page, current_url, current_page,
                   html, driver_dom, link_idx, all_companies_data, csv, browser_open,
                   robots, debug, response, item, hist>>
    /\ UNCHANGED spiderVars

\* v3.py crawl(): company_links = self.find_company_links()
FindCompanyLinksOfPage ==
    /\ variant = "v3" /\ pc = "listing"
    /\ company_links' \in UniqueCompanies(response)
    /\ pc' = "links"
    /\ UNCHANGED <<variant, max_pages, companies_per_page, current_url, current_page,
                   html, driver_dom, link_idx, all_companies_data, csv, browser_open,
                   response, item, hist>>
    /\ UNCHANGED <<spiderVars, sideVars>>

LinksNext == CollectCompanyLinks \/ FindCompanyLinksOfPage

SpecLinks == ListingInit /\ [][LinksNext]_vars


\* ====================================================== forms of the homepage
\* the most forms a homepage carries
MaxHomeForms == 2
\* homepages: the action of each form, the hrefs of the search anchors
HomePages == [forms : SeqsUpTo(FormActions, MaxHomeForms), anchors : SeqsUpTo(SearchAnchors, 1)]
\* what is remembered of parse(): the actions of the forms it submitted, the
\* hardcoded URLs it requested, and what the first submission came back with
NoSubmission == [submitted |-> <<>>, direct |-> <<>>, results |-> "none"]

\* the homepage has arrived; nothing else is going on
HomeInit ==
    /\ variant \in Spiders
    /\ debug \in (IF variant = "spiderB" THEN BOOLEAN ELSE {FALSE})
    /\ response \in HomePages
    /\ item = NoItem
    /\ pc = "home"
    /\ max_pages = 1
    /\ companies_per_page = 0
    /\ current_url = BaseUrl
    /\ current_page = 1
    /\ html = BlankDoc
    /\ driver_dom = BlankDoc
    /\ company_links = <<>>
    /\ link_idx = 1
    /\ all_companies_data = 0
    /\ csv = OpenCsv
    /\ browser_open = FALSE
    /\ scheduler = <<>>
    /\ inflight = {}
    /\ seen = {}
    /\ processed_urls = {}
    /\ company_count = 0
    /\ items = 0
    /\ robots = {}
    /\ snapshots = {}
    /\ hist = NoSubmission

\* parse(response): the snapshot, the form submissions, the hardcoded URLs
ParseHome ==
    /\ pc = "home"
    /\ snapshots' = SaveResponse(snapshots, "homepage")
    /\ LET st == EnqueueAll([sched |-> scheduler, seen |-> seen],
                            Requests(HomeRequests(response), "parse_search_results"))
       IN  /\ scheduler' = st.sched
           /\ seen' = st.seen
    /\ hist' = [hist EXCEPT !.submitted = SubmittedForms(response.forms),
                            !.direct = DirectUrls(response.forms)]
    /\ pc' = "yielded"
    /\ UNCHANGED <<variant, inflight, processed_urls, company_count, items, csv>>
    /\ UNCHANGED crawlVars
    /\ UNCHANGED <<robots, debug, extractVars>>

\* parse_search_results(response) for the answer to the first form submission:
\* the detail requests and the next-page request of that listing, nothing else
ParseFormResults ==
    /\ pc = "yielded"
    /\ hist.submitted # <<>>
    /\ \E doc \in ListingDocs(DefaultSearchUrl) :
         LET details == DetailRequests(doc)
             st == EnqueueAll([sched |-> Tail(scheduler), seen |-> seen],
                              Requests(details, "parse_company")
                                 \o Requests(NextRequests(doc), "parse_search_results"))
         IN  /\ scheduler' = st.sched
             /\ seen' = st.seen
             /\ processed_urls' = IF variant = "spiderA"
                                  THEN processed_urls \cup Range(details)
                                  ELSE processed_urls
             /\ hist' = [hist EXCEPT !.results = IF doc.links = <<>> THEN "empty" ELSE "some"]
    /\ snapshots' = SaveResponse(snapshots, "search_results")
    /\ pc' = "results"
    /\ UNCHANGED <<variant, inflight, company_count, items, csv>>
    /\ UNCHANGED crawlVars
    /\ UNCHANGED <<robots, debug, extractVars>>

HomeNext == ParseHome \/ ParseFormResults

SpecHome == HomeInit /\ [][HomeNext]_vars

\* ==================================================== files of a company page
\* the most file links a company page carries
MaxFiles == 2
\* hrefs the file selectors match: documents, and a download link whose path
\* ends in "/" (os.path.basename is '' and a file name is made up)
FileHrefs == {"/doc/atto.pdf", "/doc/bilancio.xls", "/download/"}
\* company pages: the hrefs of their file links in document order
FilePages == SeqsUpTo(FileHrefs, MaxFiles)
\* nothing attempted yet
NoDownloads == [attempted |-> <<>>, failed |-> {}]

\* parse_company: the file selectors in turn, urljoin, "if absolute_url not in
\* file_urls: file_urls.append(absolute_url)"
FileUrls(page) == Dedup(page)

\* the position of the download loop after file i of n: a download that raises
\* ends the loop at once
NextFileStopsOnError(i, n, outcome) == IF outcome = "raise" THEN n + 1 ELSE i + 1
\* the position of the download loop after file i of n: "except Exception" is
\* inside the for loop, which goes on with the next file
NextFile(i, n, outcome) == i + 1

\* a company page has arrived and its fields are read; nothing else is going on
FilesInit ==
    /\ variant = "spiderA"
    /\ response \in FilePages
    /\ item = [file_urls |-> <<>>, returned |-> FALSE]
    /\ pc = "fields"
    /\ max_pages = 1
    /\ companies_per_page = 0
    /\ current_url = BaseUrl
    /\ current_page = 1
    /\ html = BlankDoc
    /\ driver_dom = BlankDoc
    /\ company_links = <<>>
    /\ link_idx = 1
    /\ all_companies_data = 0
    /\ csv = OpenCsv
    /\ browser_open = FALSE
    /\ scheduler = <<>>
    /\ inflight = {}
    /\ seen = {}
    /\ processed_urls = {}
    /\ company_count = 0
    /\ items = 0
    /\ robots = {}
    /\ debug = FALSE
    /\ snapshots = {}
    /\ hist = NoDownloads

\* parse_company, "8. Look for downloadable files": item['file_urls'] is set
\* when the list is not empty
CollectFileUrls ==
    /\ pc = "fields"
    /\ item' = [item EXCEPT !.file_urls = FileUrls(response)]
    /\ link_idx' = 1
    /\ pc' = "files"
    /\ UNCHANGED <<variant, max_pages, companies_per_page, current_url, current_page,
                   html, driver_dom, company_links, all_companies_data, csv,
                   browser_open, response, hist>>
    /\ UNCHANGED <<spiderVars, sideVars>>

\* one turn of "for file_url in file_urls": wget.download returns or raises
DownloadFile ==
    /\ pc = "files"
    /\ link_idx <= Len(item.file_urls)
    /\ \E outcome \in {"ok", "raise"} :
         /\ hist' = [hist EXCEPT
                        !.attempted = Append(@, item.file_urls[link_idx]),
                        !.failed = IF outcome = "raise" THEN @ \cup {link_idx} ELSE @]
         /\ link_idx' = NextFile(link_idx, Len(item.file_urls), outcome)
    /\ UNCHANGED <<variant, max_pages, companies_per_page, current_url, current_page,
                   html, driver_dom, company_links, all_companies_data, csv,
                   browser_open, pc, response, item>>
    /\ UNCHANGED <<spiderVars, sideVars>>

\* the end of parse_company: the counter, save_to_csv, "return item"
ReturnItem ==
    /\ pc = "files"
    /\ link_idx > Len(item.file_urls)
    /\ company_count' = company_count + 1
    /\ csv' = AppendRow(csv)
    /\ items' = items + 1
    /\ item' = [item EXCEPT !.returned = TRUE]
    /\ pc' = "returned"
    /\ UNCHANGED <<variant, max_pages, companies_per_page, current_url, current_page,
                   html, driver_dom, company_links, link_idx, all_companies_data,
                   browser_open, response, hist>>
    /\ UNCHANGED <<scheduler, inflight, seen, processed_urls>>
    /\ UNCHANGED sideVars

FilesNext == CollectFileUrls \/ DownloadFile \/ ReturnItem

SpecFiles == FilesInit /\ [][FilesNext]_vars

\* ================================================== fingerprints of companies
\* the most results pages that are parsed
MaxListings == 2
\* company pages of three different paths, and the bodies they can serve
CompanyUrls == {U("/company/1", ""), U("/company/2", ""), U("/company/3", "")}
Bodies == {"acme", "beta"}
\* hashlib.md5(response.body).hexdigest()
Md5(body) == <<"md5", body>>
\* CacheURLFilter.__init__
NewFilter == [seen_urls |-> {}, company_fingerprints |-> {}]

\* scrapy.Request(url, callback=self.parse_company, meta={'company_url': url})
CompanyRequest(url) ==
    [url |-> url, cb |-> "parse_company", meta |-> [company_url |-> url],
     dont_filter |-> FALSE]

\* CacheURLFilter.request_seen(request) on filter f: the answer
CacheRequestSeen(f, req) ==
    \/ U(req.url.path, "") \in f.seen_urls
    \/ /\ "company_fingerprint" \in DOMAIN req.meta
       /\ req.meta.company_fingerprint \in f.company_fingerprints

\* CacheURLFilter.request_seen(request) on filter f: the filter afterwards
AfterCacheRequestSeen(f, req) ==
    IF CacheRequestSeen(f, req) THEN f
    ELSE [f EXCEPT !.seen_urls = @ \cup {U(req.url.path, "")}]

\* CacheURLFilter.register_company_fingerprint(fingerprint)
RegisterCompanyFingerprint(f, fingerprint) ==
    [f EXCEPT !.company_fingerprints = @ \cup {fingerprint}]

RECURSIVE ScheduleCompanies(_, _)
\* the company requests of one results page go to the scheduler one by one
ScheduleCompanies(st, urls) ==
    IF urls = <<>> THEN st
    ELSE LET req == CompanyRequest(Head(urls))
             next == IF CacheRequestSeen(st.seen, req) THEN st
                     ELSE [sched |-> Append(st.sched, req),
                           seen |-> AfterCacheRequestSeen(st.seen, req)]
         IN  ScheduleCompanies(next, Tail(urls))

\* what is remembered of the company pages: for each request that was
\* scheduled the fingerprints registered at that time, for each page that was
\* parsed its URL, its body and the fingerprints registered when it was requested
NoCompanies == [requested |-> {}, parsed |-> {}]

\* the spider of startup_crawler.py is crawling, nothing is scheduled
DedupInit ==
    /\ variant = "spiderB"
    /\ debug = FALSE
    /\ response = NoResponse
    /\ item = NoItem
    /\ pc = "crawl"
    /\ max_pages = 1
    /\ companies_per_page = 0
    /\ current_url = BaseUrl
    /\ current_page = 1
    /\ html = BlankDoc
    /\ driver_dom = BlankDoc
    /\ company_links = <<>>
    /\ link_idx = 1
    /\ all_companies_data = 0
    /\ csv = OpenCsv
    /\ browser_open = FALSE
    /\ scheduler = <<>>
    /\ inflight = {}
    /\ seen = NewFilter
    /\ processed_urls = {}
    /\ company_count = 0
    /\ items = 0
    /\ robots = {}
    /\ snapshots = {}
    /\ hist = NoCompanies

\* parse_search_results(response): a request for each company link
DedupSearchResults ==
    /\ pc = "crawl"
    /\ current_page <= MaxListings
    /\ \E links \in SeqsUpTo(CompanyUrls, MaxLinks) :
         LET st == ScheduleCompanies([sched |-> scheduler, seen |-> seen], Dedup(links))
             new == SubSeq(st.sched, Len(scheduler) + 1, Len(st.sched))
         IN  /\ scheduler' = st.sched
             /\ seen' = st.seen
             /\ hist' = [hist EXCEPT !.requested = @ \cup
                            {[url |-> new[i].url, known |-> seen.company_fingerprints] :
                                i \in 1..Len(new)}]
    /\ current_page' = current_page + 1
    /\ UNCHANGED <<variant, max_pages, companies_per_page, pc, current_url, html,
                   driver_dom, company_links, link_idx, all_companies_data, csv,
                   browser_open, inflight, processed_urls, company_count, items>>
    /\ UNCHANGED <<sideVars, extractVars>>

\* parse_company(response) for the request on top of the scheduler: the
\* fingerprint of the body is registered, the item goes to the pipelines
DedupParseCompany ==
    /\ pc = "crawl"
    /\ scheduler # <<>>
    /\ \E body \in Bodies :
         /\ seen' = RegisterCompanyFingerprint(seen, Md5(body))
         /\ hist' = [hist EXCEPT !.parsed = @ \cup
                        {[url |-> r.url, body |-> body, known |-> r.known] :
                            r \in {q \in hist.requested : q.url = scheduler[Len(scheduler)].url}}]
    /\ scheduler' = SubSeq(scheduler, 1, Len(scheduler) - 1)
    /\ company_count' = company_count + 1
    /\ UNCHANGED <<variant, max_pages, companies_per_page, pc, current_url, current_page,
                   html, driver_dom, company_links, link_idx, all_companies_data, csv,
                   browser_open, inflight, processed_urls, items>>
    /\ UNCHANGED <<sideVars, extractVars>>

DedupNext == DedupSearchResults \/ DedupParseCompany

SpecDedup == DedupInit /\ [][DedupNext]_vars

\* ========================================================= scrolling a page
\* document.body.scrollHeight is kept modulo MaxHeight, as 1..MaxHeight: the
\* heights before and after a growth stay different
MaxHeight == 6
\* the most times a page that stops growing grows
MaxGrowth == 3
\* the page of a URL: its height when loaded, and how often a scroll to the
\* bottom still makes it longer (endless: every time)
ScrollPages ==
    [height : 1..MaxHeight, more : 0..MaxGrowth, endless : {FALSE}]
        \cup [height : 1..MaxHeight, more : {0}, endless : {TRUE}]
\* the page after window.scrollTo(0, document.body.scrollHeight) and the wait
ScrolledToBottom(page) ==
    IF page.endless THEN [page EXCEPT !.height = (@ % MaxHeight) + 1]
    ELSE IF page.more = 0 THEN page
    ELSE [page EXCEPT !.height = (@ % MaxHeight) + 1, !.more = @ - 1]

\* get_page(url) of v3.py is called; the browser is open
ScrollInit ==
    /\ variant = "v3"
    /\ driver_dom \in ScrollPages
    /\ response = [last_height |-> 0, page_source |-> Null]
    /\ item = NoItem
    /\ pc = "get"
    /\ max_pages = 1
    /\ companies_per_page = 0
    /\ current_url = BaseUrl
    /\ current_page = 1
    /\ html = BlankDoc
    /\ company_links = <<>>
    /\ link_idx = 1
    /\ all_companies_data = 0
    /\ csv = NoFile
    /\ browser_open = TRUE
    /\ scheduler = <<>>
    /\ inflight = {}
    /\ seen = {}
    /\ processed_urls = {}
    /\ company_count = 0
    /\ items = 0
    /\ robots = {}
    /\ debug = FALSE
    /\ snapshots = {}
    /\ hist = InitHist

\* get_page: driver.get(url) and the wait for body, which time out, raise or
\* pass; then the first line of scroll_page
DriverGet ==
    /\ pc = "get"
    /\ \E outcome \in {"timeout", "raise", "ok"} :
         IF outcome = "ok"
         THEN /\ response' = [response EXCEPT !.last_height = driver_dom.height]
              /\ pc' = "scroll"
         ELSE /\ pc' = "returned"
              /\ UNCHANGED response
    /\ UNCHANGED <<variant, max_pages, companies_per_page, current_url, current_page,
                   html, driver_dom, company_links, link_idx, all_companies_data, csv,
                   browser_open, item, hist>>
    /\ UNCHANGED <<spiderVars, sideVars>>

\* one turn of "while True" in scroll_page: scroll, sleep, compare the heights;
\* an exception of the driver ends scroll_page
ScrollOnce ==
    /\ pc = "scroll"
    /\ \E outcome \in {"raise", "ok"} :
         IF outcome = "raise"
         THEN /\ pc' = "scrolled"
              /\ UNCHANGED <<driver_dom, response>>
         ELSE LET page == ScrolledToBottom(driver_dom)
                  new_height == page.height
              IN  /\ driver_dom' = page
                  /\ IF new_height = response.last_height
                     THEN /\ pc' = "scrolled"
                          /\ UNCHANGED response
                     ELSE /\ response' = [response EXCEPT !.last_height = new_height]
                          /\ UNCHANGED pc
    /\ UNCHANGED <<variant, max_pages, companies_per_page, current_url, current_page,
                   html, company_links, link_idx, all_companies_data, csv,
                   browser_open, item, hist>>
    /\ UNCHANGED <<spiderVars, sideVars>>

\* get_page: return self.driver.page_source
ReturnPageSource ==
    /\ pc = "scrolled"
    /\ response' = [response EXCEPT !.page_source = <<"html">>]
    /\ pc' = "returned"
    /\ UNCHANGED <<variant, max_pages, companies_per_page, current_url, current_page,
                   html, driver_dom, company_links, link_idx, all_companies_data, csv,
                   browser_open, item, hist>>
    /\ UNCHANGED <<spiderVars, sideVars>>

ScrollNext == DriverGet \/ ScrollOnce \/ ReturnPageSource

\* get_page runs in the one thread of the program: it takes its next step
\* whenever it has one
SpecScroll == ScrollInit /\ [][ScrollNext]_vars /\ WF_vars(ScrollNext)

\* ============================================================ properties
Crawls == {"v2", "v3"}

\* C1: in crawl() of v2.py and v3.py a failed detail page never aborts the
\* run: when the crawl leaves a listing page one of whose detail pages failed,
\* every detail link of that page has been processed and the crawl has taken
\* the next-page URL that the listing page itself offers.
C1_DetailFailureNeverAborts ==
    (variant \in Crawls /\ hist.left.pages = 1 /\ hist.left.failed) =>
        /\ hist.unprocessed = 0
        /\ hist.left.followed = hist.left.own_next

\* C2: the listing step of startUpCrawler.py, v3.py and v2.py never returns or
\* schedules the same detail URL twice for one listing page.
C2_ListingEmitsUniqueLinks ==
    variant \in {"spiderA", "v3", "v2"} =>
        /\ ~HasDuplicates(company_links)
        /\ ~hist.emitted_dup

\* C3: over a whole run of startUpCrawler.py, v2.py or v3.py no listing page
\* and no detail page is fetched a second time.
C3_NoPageVisitedTwice ==
    variant \in {"spiderA", "v2", "v3"} => ~hist.refetched

\* C4: when the crawl of v2.py or v3.py leaves a listing page whose document
\* has no next control, the next-page URL it found is none, and it fetches no
\* further listing page.
C4_NoNextControlEndsLoop ==
    (variant \in Crawls /\ hist.left.pages = 1 /\ hist.left.own_next = NoUrl) =>
        /\ hist.left.followed = NoUrl
        /\ ~(pc = "loop" /\ WhileGuard(current_url, current_page, max_pages))

\* what is left of a crawl() run: the pages still allowed, then the links of the
\* current page, then the steps after the loop; every step of crawl() lowers it
Rank ==
    IF pc = "done" THEN 0
    ELSE IF pc \in {"save", "finally"} THEN 1
    ELSE 2 + (max_pages + 1 - current_page) * (MaxLinks + 4)
           + (IF pc = "loop" THEN MaxLinks + 3
              ELSE IF pc = "detail" THEN 2 + Len(company_links) - link_idx
              ELSE 1)

\* a step of crawl() lowers Rank
RankFalls == variant \in Crawls => Rank' < Rank

C6_SpiderPageCeiling ==
    variant \in Spiders => ~(NextTargets \subseteq hist.fetched)

\* C7: when the spider of startUpCrawler.py has closed after parsing N company
\* pages, its file holds one header row and N data rows.
C7_OneRowPerRecord ==
    (variant = "spiderA" /\ pc = "done") =>
        /\ csv.header = 1
        /\ csv.rows = company_count

\* C8: in v2.py, v3.py and startUpCrawler.py the header is written once, no
\* save rewrites rows written before, and at the end of every run, one without
\* records included, the file has its header row.
C8_HeaderOnceAppendOnly ==
    variant \in {"v2", "v3", "spiderA"} =>
        /\ hist.header_writes <= 1
        /\ ~hist.rewrote
        /\ (pc = "done" => csv.exists /\ csv.header = 1)

\* the requests the spider has issued and not yet answered
Pending == Range(scheduler) \cup inflight

\* C9: in startup_crawler.py no request carries a retry_count above 2, so a
\* request is re-issued by handle_error at most twice; and while the spider is
\* open the crawl can go on, also after a request was given up.
C9_BoundedRetry ==
    variant = "spiderB" =>
        /\ \A r \in Pending : r.retry_count <= 2
        /\ (pc = "crawl" => ENABLED Next)

\* handle_error gave a request up after its second retry failed, and the crawl
\* has gone on: another request is with the downloader and a company was parsed
C9_Witness ==
    /\ variant = "spiderB"
    /\ hist.gave_up
    /\ company_count > 0
    /\ \E r \in inflight : r.retry_count = 0

\* C10: when the first get_page call of crawl() in v2.py or v3.py returns no
\* document, the listing URL stays the only URL fetched, nothing is collected
\* and no row is written, and the run goes to its end, where v3.py has closed
\* the browser.
C10_FirstPageFailureEndsRun ==
    (variant \in Crawls /\ hist.first_failed) =>
        /\ hist.fetched = {BaseUrl}
        /\ hist.listing_fetches = 1
        /\ all_companies_data = 0
        /\ csv.rows = 0
        /\ pc \in {"save", "finally", "done"}
        /\ (pc # "done" => ENABLED Next)
        /\ (pc = "done" => ~browser_open)

\* v3.py: the first page could not be loaded, and the run has ended
C10_Witness ==
    /\ variant = "v3"
    /\ hist.first_failed
    /\ hist.exit_reason = "fetch_failed"
    /\ pc = "done"

\* C11: get_page of v2.py and v3.py never sends a request for a URL that
\* robots.txt disallows.
C11_RobotsHonoured ==
    variant \in Crawls => ~hist.contacted_disallowed

\* C12: every record extracted so far is in the output file whenever the fetch
\* of a next page starts (crawl of v2.py and v3.py), and as soon as
\* parse_company of startUpCrawler.py has counted it.
C12_PersistedBeforeNextFetch ==
    /\ (variant \in Crawls /\ pc = "detail") => csv.rows = all_companies_data
    /\ (variant \in Crawls /\ pc = "loop"
           /\ WhileGuard(current_url, current_page, max_pages)) =>
            csv.rows = all_companies_data
    /\ variant = "spiderA" => csv.rows >= company_count

\* C13: in every variant at most one page request is in flight at any time.
C13_OneRequestInFlight ==
    Cardinality(inflight) <= 1

\* C19: with companies_per_page given, crawl() of v2.py and v3.py processes at
\* most companies_per_page detail links per listing page and collects at most
\* max_pages * companies_per_page records.
C19_RecordCap ==
    (variant \in Crawls /\ companies_per_page > 0) =>
        /\ Len(company_links) <= companies_per_page
        /\ hist.unprocessed <= companies_per_page
        /\ all_companies_data <= max_pages * companies_per_page

\* v2.py on its last page: the listing had more links than companies_per_page,
\* and the run has collected max_pages * companies_per_page records
C19_Witness ==
    /\ variant = "v2" /\ pc = "paginate"
    /\ companies_per_page > 0
    /\ Len(html.links) > companies_per_page
    /\ max_pages > 1 /\ current_page = max_pages
    /\ all_companies_data = max_pages * companies_per_page

\* C20: with debug off the spiders write no snapshot file.
C20_SnapshotsOnlyInDebug ==
    (variant \in Spiders /\ ~debug) => snapshots = {}

\* ---------------------------------------------------------- field extraction
\* the first text of a sequence that is not blank, trimmed; Empty without one
FirstNonBlank(texts) ==
    LET idx == {i \in 1..Len(texts) : Strip(texts[i]) # Empty}
    IN  IF idx = {} THEN Empty
        ELSE Strip(texts[CHOOSE i \in idx : \A j \in idx : i <= j])
\* the first match of every selector that has one, in the order of the list
FirstMatches(field_hits) ==
    Flatten([k \in 1..Len(field_hits) |->
                IF field_hits[k] = <<>> THEN <<>> ELSE <<field_hits[k][1]>>])
\* a field has the expected value; a field without value is None or ''
HasValue(v, expected) ==
    IF expected = Empty THEN v \in {Null, Empty} ELSE v = expected
\* a callback that returned
Parsed == pc = "parsed" /\ ~item.raised

\* C14: a field's value is the first match that is not blank, in the order of
\* the methods or selectors, trimmed, and nothing after it is read: for
\* extract_text_by_methods of v3.py over the elements of its methods, for
\* extract_with_selectors of startUpCrawler.py over what its selectors give,
\* and for every field that startup_crawler.py loads, the description
\* included.
C14_FirstNonEmptyMatch ==
    Parsed =>
        /\ variant = "v3" =>
              /\ HasValue(item.company_name, FirstNonBlank(Flatten(response.company_name)))
              /\ HasValue(item.description, FirstNonBlank(Flatten(response.description)))
        /\ variant = "spiderA" =>
              HasValue(item.description, FirstNonBlank(FirstMatches(response.description)))
        /\ variant = "spiderB" =>
              /\ HasValue(item.company_name, FirstNonBlank(Flatten(response.company_name)))
              /\ HasValue(item.description, FirstNonBlank(Flatten(response.description)))

\* the address that a mailto: link points to: its href without the prefix
TargetAddress(link) == Strip(Tail(link))

Usable(link) ==
    /\ HasToken(TargetAddress(link), "@")
    /\ HasToken(AfterLast(TargetAddress(link), "@"), ".")

NoUsableMailto ==
    IF variant = "spiderA"
    THEN \A k \in 1..Len(response.mailto) : ~BasicValidation(EmailOfLink(response.mailto[k]))
    ELSE response.mailto = <<>> \/ EmailIn(response.mailto[1]) = <<>>

\* C18: on a detail page without a usable mailto: link, parse_company of both
\* spiders sets the e-mail to the first match of the e-mail pattern that is
\* not on the denylist, to the first match when every match is on the
\* denylist, and leaves the field empty when the pattern matches nothing.
C18_ScanFallback ==
    (variant \in Spiders /\ Parsed /\ NoUsableMailto) =>
        LET ms == response.email_matches
            OnList(i) == Denylisted(ms[i])
        IN  /\ item.scanned
            /\ ms = <<>> => item.email = Null
            /\ (\E i \in 1..Len(ms) : ~OnList(i)) =>
                  \E i \in 1..Len(ms) :
                     ~OnList(i) /\ item.email = ms[i] /\ \A j \in 1..(i - 1) : OnList(j)
            /\ (ms # <<>> /\ \A i \in 1..Len(ms) : OnList(i)) => item.email = ms[1]
\* a page with a link that cannot be used and two matches, the first of them
\* on the denylist: the second is taken
C18_Witness ==
    /\ variant \in Spiders /\ Parsed /\ NoUsableMailto
    /\ response.mailto # <<>>
    /\ Len(response.email_matches) = 2
    /\ Denylisted(response.email_matches[1])
    /\ ~Denylisted(response.email_matches[2])
    /\ item.email = response.email_matches[2]

\* a text node "Label: value" for one of the labels, and its value
IsPair(text, labels) ==
    /\ Len(text) > 2 /\ text[1] \in Range(labels) /\ text[2] = ":"
    /\ Strip(SubSeq(text, 3, Len(text))) # Empty
PairValue(text) == Strip(SubSeq(text, 3, Len(text)))

\* C16: when a text node of the page reads "Label: value" with a label of the
\* region, extract_labeled_field (startUpCrawler.py) and
\* extract_field_with_labels (startup_crawler.py) give the region that value,
\* trimmed, whatever else on the page holds a label.
C16_LabelledValue ==
    (variant \in Spiders /\ Parsed
        /\ \E i \in 1..Len(response.elements) : IsPair(response.elements[i], RegionLabels)) =>
        \E i \in 1..Len(response.elements) :
            /\ IsPair(response.elements[i], RegionLabels)
            /\ item.region = PairValue(response.elements[i])

\* the page has a date label or a date that the patterns find
HasDate(page) ==
    \/ \E i \in 1..Len(page.elements) : HasLabel(page.elements[i], DateLabels[1])
    \/ FindDates(page.elements, DateWordsIgnoreCase) # <<>>

\* C17: a field that nothing on the page matches is no error for parse_company
\* of startUpCrawler.py: the callback returns and the record is written to
\* the file; the company name is empty when no name selector matches, the
\* date is empty when the page has no date label and no date pattern, and
\* the description is extracted all the same.
C17_AbsentFieldIsEmpty ==
    (variant = "spiderA" /\ pc = "parsed") =>
        /\ ~item.raised
        /\ csv.rows = 1
        /\ FirstNonBlank(FirstMatches(response.company_name)) = Empty =>
              item.company_name \in {Null, Empty}
        /\ ~HasDate(response) => item.creation_date \in {Null, Empty}
        /\ HasValue(item.description, FirstNonBlank(FirstMatches(response.description)))

\* ------------------------------------------------------- links of a listing
\* the links of the first selector that has any, made absolute and without
\* repetitions in the order of their first occurrence; the anchors with a
\* company path when no selector has a link
FirstSelectorLinks(page, Yield(_)) ==
    IF Yield(CssAnchors(page, 1)) # <<>> THEN Dedup(AbsoluteUrls(Yield(CssAnchors(page, 1))))
    ELSE IF Yield(CssAnchors(page, 2)) # <<>> THEN Dedup(AbsoluteUrls(Yield(CssAnchors(page, 2))))
    ELSE Dedup(AbsoluteUrls(CompanyAnchors(page)))

\* C21: the detail links of a listing page are the links of the first
\* selector of the list that gives any, later selectors are not read; they
\* are absolute, without repetitions and in the order of first occurrence; the
\* scan of all anchors for a company path is used only when no selector gives
\* a link (parse_search_results of startUpCrawler.py, find_company_links of
\* v3.py, where a selector gives the links that have a company path).
C21_FirstSelectorLinks ==
    pc = "links" =>
        /\ variant = "spiderA" =>
              company_links = FirstSelectorLinks(response, LAMBDA anchors : anchors)
        /\ variant = "v3" =>
              company_links = FirstSelectorLinks(response, CompanyAnchors)

\* ------------------------------------------------------ forms of the homepage
\* the form the homepage's search is submitted through, as a list of 0 or 1: the
\* first whose action hints at search, otherwise the first
FirstSearchForm(forms) ==
    IF forms = <<>> THEN <<>>
    ELSE LET hinting == SelectSeq(forms, HintsSearch)
         IN  IF hinting # <<>> THEN <<hinting[1]>> ELSE <<forms[1]>>

\* C22: of a homepage with forms exactly one form is submitted, the first one
\* in document order whose action hints at search or, failing that, the first
C22_OneFormSubmitted ==
    pc # "home" /\ response.forms # <<>> =>
        hist.submitted = FirstSearchForm(response.forms)

\* C23: the hardcoded search URLs are requested exactly when the homepage has
\* no form or the form's submission comes back without results
C23_HardcodedUrlsWhenNeeded ==
    /\ pc = "yielded" /\ response.forms = <<>> => hist.direct # <<>>
    /\ pc = "results" => (hist.direct # <<>> <=> hist.results = "empty")

\* ---------------------------------------------------- files of a company page
\* C24: a download that raises does not abort the record: every file URL is
\* still attempted, company_count goes up by one, one row is written and the
\* item is returned with all its file URLs
C24_DownloadFailureKeepsRecord ==
    /\ pc = "returned" =>
          /\ hist.attempted = item.file_urls
          /\ item.returned
          /\ Range(item.file_urls) = Range(response)
          /\ ~HasDuplicates(item.file_urls)
          /\ company_count = 1
          /\ csv.rows = 1
    /\ pc # "returned" => company_count = 0 /\ csv.rows = 0 /\ ~item.returned

\* the first of two downloads raised and the record was returned
C24_Witness ==
    /\ pc = "returned"
    /\ Len(item.file_urls) = 2
    /\ 1 \in hist.failed

\* ------------------------------------------------------------ the end of a run
\* the ways crawl() of v3.py leaves its loop
ExitPaths == {"no_next", "max_pages", "fetch_failed", "exception", "interrupt"}

\* C25: crawl() of v3.py ends cleanly on every exit path: the loop is left
\* only through the finally block, and when crawl() has returned the browser
\* is closed and, if a record was collected, the output file holds the header
\* and every record collected
C25_CleanFinish ==
    variant = "v3" =>
        /\ pc \in {"finally", "done"} <=> hist.exit_reason \in ExitPaths
        /\ pc = "finally" => ENABLED V3Finally
        /\ pc = "done" =>
              /\ ~browser_open
              /\ all_companies_data > 0 =>
                    csv.exists /\ csv.header = 1 /\ csv.rows = all_companies_data

\* crawl() of v3.py was interrupted with a record that no intermediate save
\* had written, and has returned
C25_Witness ==
    /\ variant = "v3"
    /\ pc = "done"
    /\ hist.exit_reason = "interrupt"
    /\ all_companies_data > 0
    /\ hist.header_writes = 1

\* ------------------------------------------------------- one record per page
\* C26: every detail page that v2.py or v3.py fetched yields exactly one
\* record in the collected list, also when every field but the URL is empty
C26_OneRecordPerPage ==
    (variant \in Crawls /\ pc = "parsed") => all_companies_data = 1

\* --------------------------------------------------------- the request filter
\* scheme, host and path of a request
BaseOf(req) == U(req.url.path, "")

\* the requests a step adds to the scheduler that went through the filter
Accepted(before, after) ==
    SelectSeq(SubSeq(after, Len(before) + 1, Len(after)), LAMBDA req : ~req.dont_filter)

\* what CacheURLFilter lets through in one step of the spider of
\* startup_crawler.py: nothing whose scheme, host and path were accepted before,
\* no two requests with the same scheme, host and path, and all of it remembered
AcceptsByPath ==
    variant = "spiderB" =>
        LET new == Accepted(scheduler, scheduler')
        IN  /\ seen \subseteq seen'
            /\ \A i \in 1..Len(new) :
                  /\ BaseOf(new[i]) \notin seen
                  /\ BaseOf(new[i]) \in seen'
                  /\ \A j \in 1..Len(new) : BaseOf(new[j]) = BaseOf(new[i]) => j = i

\* C27: CacheURLFilter identifies a request by scheme, host and path: after a
\* request was accepted, a later filtered request that differs in the query
\* string only is dropped, and no two accepted filtered requests share scheme,
\* host and path
C27_FilterByPath ==
    /\ [][AcceptsByPath]_vars
    /\ [](variant = "spiderB" =>
            \A r1, r2 \in {r \in Pending : ~r.dont_filter} :
                BaseOf(r1) = BaseOf(r2) => r1.url = r2.url)

\* the homepage had no form: of the three fallback URLs the second, which
\* differs from the first in its query string only, was dropped
C27_Witness ==
    /\ variant = "spiderB"
    /\ pc = "crawl"
    /\ inflight = {}
    /\ scheduler = Requests(<<FallbackUrls[1], FallbackUrls[3]>>, "parse_search_results")

\* ------------------------------------------------- fingerprints of companies
\* C28: a company whose content fingerprint is registered is not processed
\* again: a request made after parse_company registered the MD5 of a body
\* yields no record for a page with that same body
C28_RegisteredBodyNotParsedAgain ==
    \A p \in hist.parsed : Md5(p.body) \notin p.known

\* ---------------------------------------------------------- scrolling a page
\* C29: every fetch terminates: get_page of v3.py returns after finitely many
\* steps, also for a page that grows on every scroll
C29_GetPageReturns == <>(pc = "returned")

\* ------------------------------------------------------ the last-ditch scan
\* the labels of the page that map to the region and are followed by a value
RegionPairs(elements) ==
    {i \in 1..Len(elements) : MapsToRegion(elements[i]) /\ NextSibling(elements, i) # Empty}

====
